---- MODULE Spec2Model ----
(***************************************************************************)
(* A model of the auto_test repository: the planner client's retry loop    *)
(* (ai_interface/ai_client.py), the element dictionary and its resolver    *)
(* (utils/element_dictionary.py), the two interaction handlers             *)
(* (ui_automator/interaction_handler.py, utils/interaction_handler.py),    *)
(* the live-device element lookup with ancestor promotion                  *)
(* (ui_automator/element_parser.py) and the generated step script          *)
(* (ai_interface/action_analyzer.py, main.py).                             *)
(*                                                                         *)
(* Each component has its own specification over its own group of          *)
(* variables; the variables of the other groups stay at their initial      *)
(* values.                                                                 *)
(***************************************************************************)
EXTENDS Integers, Sequences, FiniteSets, TLC

VARIABLES
    \* ---- AIClient.create_chat_completion ----
    ai_pc,        \* "idle" | "request" (about to send a request) | "done"
    retry_count,  \* the retry_count argument of the running invocation
    ai_rc0,       \* retry_count of the outermost call
    ai_outcomes,  \* one record per request sent: how the server answered it
    ai_waits,     \* the arguments of time.sleep, in order
    ai_result,    \* "pending" | "None" | "content"
    \* ---- ImprovedElementDictionary ----
    xml_file,              \* the hierarchy document on disk: its nodes in pre-order
    capture,               \* the hierarchy document last loaded
    reloaded,              \* a successful load has discarded the records of an
                           \* earlier capture
    uuids,                 \* what uuid.uuid4().hex[:8] returned for each node of
                           \* that document, in document order
    elements,              \* self.elements: element id -> element_info
    interactive_elements,  \* self.interactive_elements (the ids it holds)
    element_index,         \* self.element_index: the four mappings
    app_info,              \* self.app_info
    fe_call,               \* the last find_element call on the dictionary as it
                           \* is now: its query and `by`
    fe_result,             \* what that call returned
    \* ---- the device ----
    driver,         \* who drives the device: the "ui" handler, the "utils"
                    \* handler, or the generated "script"
    dev_clickable,  \* the live hierarchy, a chain (node k is the parent of
                    \* node k + 1): the clickable flag of each node
    dev_home,       \* the launcher is showing
    dev_log,        \* the device calls of the running (or last) operation
    dev_faults,     \* how many of them raised
    \* ---- ui_automator InteractionHandler and ElementParser ----
    ui_op,       \* the running (or last) operation
    ui_pc,       \* "idle" | "lookup" | "scroll" | "restore" | "done"
    ui_by,       \* "text" | "id" | "none": which target argument was given
    ui_N,        \* scroll_attempts
    ui_retry,    \* retry of the running click_by_text / click_by_id
    ui_i,        \* forward scrolls performed
    ui_try,      \* iterations of the click_by_* loop completed
    ui_r,        \* reverse scrolls performed
    ui_dir,      \* scroll_direction
    ui_result,   \* "pending" | "True" | "False"
    ui_matched,  \* the node device(text=...) matched last, 0 when none
    ui_found,    \* what find_element_by_text / find_element_by_id returned last
    \* ---- ui_automator InteractionHandler.wait_element ----
    w_pc,        \* "idle" | "loop" (at the loop test) | "sleep" | "done"
    w_by,        \* "text" | "id" | "none": which target argument was given
    w_timeout,   \* timeout, in half-seconds
    w_now,       \* time.time() - start_time, in half-seconds
    w_result,    \* "pending" | "True" | "False"
    dev_target,  \* the awaited element is on the device's screen, visible
    dev_editable,\* the element a lookup matches on the device is an input field
    w_in_time,   \* it came up while the running wait had not timed out
    \* ---- utils InteractionHandler ----
    h_call,      \* the last find_and_perform_action call
    h_result,    \* "none" | "True" | "False" | "raise"
    \* ---- the generated script and the orchestrator ----
    planner_out, \* what the planner answered
    sc_actions,  \* the actions analyze_task returned
    sc_script,   \* the statements of execute_test_step, one per action
    sc_pc,       \* "idle" | "analyzed" | "generated" | "running" | "returned"
                 \* | "recorded"
    sc_done,     \* one record per statement executed
    sc_result,   \* "pending" | "True" | "False" | "raise"
    test_result, \* test_case["test_result"]: "none" | "pass" | "fail"
    \* ---- ElementParser and the parsing helpers, called on their own ----
    pf_call,     \* the last call: the method and its argument
    pf_result,   \* what it returned
    \* ---- the loop of main ----
    main_pc,     \* "idle" | "no_cases" | the stage of the running step
                 \* | "end" (the loop is over) | "aborted" (an exception left main)
    main_n,      \* len(test_cases)
    main_i,      \* the test case of the running step, counted from 1
    main_script, \* what the script of the running step returned
    results      \* results, one record per appended test case

aiVars == <<ai_pc, retry_count, ai_rc0, ai_outcomes, ai_waits, ai_result>>

dictVars == <<xml_file, capture, uuids, reloaded, elements, interactive_elements,
              element_index, app_info>>

feVars == <<fe_call, fe_result>>

devVars == <<driver, dev_clickable, dev_home, dev_log, dev_faults>>

uiVars == <<ui_op, ui_pc, ui_by, ui_N, ui_retry, ui_i, ui_try, ui_r, ui_dir,
            ui_result, ui_matched, ui_found>>

wVars == <<w_pc, w_by, w_timeout, w_now, w_result, dev_target, dev_editable,
           w_in_time>>

hVars == <<h_call, h_result>>

scVars == <<planner_out, sc_actions, sc_script, sc_pc, sc_done, sc_result, test_result>>

pfVars == <<pf_call, pf_result>>

mainVars == <<main_pc, main_n, main_i, main_script, results>>

vars == <<aiVars, dictVars, feVars, devVars, uiVars, wVars, hVars, scVars, pfVars, mainVars>>

\* what the planner client leaves alone
nonAiVars == <<dictVars, feVars, devVars, uiVars, wVars, hVars, scVars, pfVars, mainVars>>

\* what the element dictionary leaves alone
nonDictVars == <<aiVars, devVars, uiVars, wVars, hVars, scVars, pfVars, mainVars>>

\* what the ui_automator handler leaves alone
nonUiVars == <<aiVars, dictVars, feVars, wVars, hVars, scVars, pfVars, mainVars>>

\* what the utils handler leaves alone
nonUtilsVars == <<aiVars, dictVars, feVars, uiVars, wVars, pfVars, mainVars>>

\* what wait_element and the screen's change leave alone
nonWaitVars == <<aiVars, dictVars, feVars, uiVars, hVars, scVars, pfVars, mainVars>>

\* what the parsing helpers leave alone
nonPfVars == <<aiVars, dictVars, feVars, devVars, uiVars, wVars, hVars, scVars, mainVars>>

Min(a, b) == IF a <= b THEN a ELSE b

\* what the loop of main leaves alone
nonMainVars == <<aiVars, dictVars, feVars, devVars, uiVars, wVars, hVars, scVars, pfVars>>

(***************************************************************************)
(* AIClient.create_chat_completion                                         *)
(***************************************************************************)

\* self.max_retries = 3
max_retries == 3

\* largest retry_count a caller passes to the outermost call
MaxStartRetry == 4

\* the HTTP statuses the server answers with
StatusCodes == {200, 429, 404, 500}

IsRateLimit_any(status) == status # 200
\* response.status_code == 429
IsRateLimit(status) == status = 429

WaitTime_shifted(rc) == Min(2 ^ (rc + 1), 8)
\* wait_time = min(2 ** retry_count, 8)
WaitTime(rc) == Min(2 ^ rc, 8)

CanRetry_inclusive(rc) == rc <= max_retries
\* retry_count < self.max_retries
CanRetry(rc) == rc < max_retries

AiInit ==
    /\ ai_pc = "idle"
    /\ retry_count = 0
    /\ ai_rc0 = 0
    /\ ai_outcomes = <<>>
    /\ ai_waits = <<>>
    /\ ai_result = "pending"

\* A caller invokes create_chat_completion(messages, retry_count = rc).
CreateChatCompletion(rc) ==
    /\ ai_pc = "idle"
    /\ ai_pc' = "request"
    /\ retry_count' = rc
    /\ ai_rc0' = rc
    /\ ai_outcomes' = <<>>
    /\ ai_waits' = <<>>
    /\ ai_result' = "pending"
    /\ UNCHANGED nonAiVars

SleepAndRetry_sameCount ==
    /\ ai_waits' = Append(ai_waits, WaitTime(retry_count))
    /\ retry_count' = retry_count
    /\ ai_pc' = "request"
    /\ ai_result' = ai_result

\* time.sleep(wait_time); return self.create_chat_completion(messages, retry_count + 1)
SleepAndRetry ==
    /\ ai_waits' = Append(ai_waits, WaitTime(retry_count))
    /\ retry_count' = retry_count + 1
    /\ ai_pc' = "request"
    /\ ai_result' = ai_result

\* return None
ReturnNone ==
    /\ ai_pc' = "done"
    /\ ai_result' = "None"
    /\ UNCHANGED <<retry_count, ai_waits>>

\* the except handlers: retry while retry_count < max_retries, else None
RetryOrNone ==
    IF CanRetry(retry_count) THEN SleepAndRetry ELSE ReturnNone

\* requests.post returns status 200 and a body that decodes to a completion
RespondOk ==
    /\ ai_pc = "request"
    /\ ai_outcomes' = Append(ai_outcomes, [kind |-> "http", status |-> 200, body |-> "ok"])
    /\ ai_pc' = "done"
    /\ ai_result' = "content"
    /\ UNCHANGED <<retry_count, ai_rc0, ai_waits>>
    /\ UNCHANGED nonAiVars

\* requests.post returns status 200 and a body whose decoding raises
\* (response.json() or result["choices"][0]...): caught by `except Exception`
RespondMalformed ==
    /\ ai_pc = "request"
    /\ ai_outcomes' = Append(ai_outcomes, [kind |-> "http", status |-> 200, body |-> "malformed"])
    /\ RetryOrNone
    /\ UNCHANGED ai_rc0
    /\ UNCHANGED nonAiVars

\* requests.post returns a status other than 200
RespondStatus(status) ==
    /\ ai_pc = "request"
    /\ status # 200
    /\ ai_outcomes' = Append(ai_outcomes, [kind |-> "http", status |-> status, body |-> "none"])
    /\ IF IsRateLimit(status) /\ CanRetry(retry_count)
         THEN SleepAndRetry
         ELSE ReturnNone
    /\ UNCHANGED ai_rc0
    /\ UNCHANGED nonAiVars

\* requests.post raises requests.exceptions.Timeout
RequestTimeout ==
    /\ ai_pc = "request"
    /\ ai_outcomes' = Append(ai_outcomes, [kind |-> "timeout", status |-> 0, body |-> "none"])
    /\ RetryOrNone
    /\ UNCHANGED ai_rc0
    /\ UNCHANGED nonAiVars

\* requests.post raises any other exception (connection refused, ...)
RequestException ==
    /\ ai_pc = "request"
    /\ ai_outcomes' = Append(ai_outcomes, [kind |-> "exception", status |-> 0, body |-> "none"])
    /\ RetryOrNone
    /\ UNCHANGED ai_rc0
    /\ UNCHANGED nonAiVars

AiNext ==
    \/ \E rc \in 0..MaxStartRetry : CreateChatCompletion(rc)
    \/ RespondOk
    \/ RespondMalformed
    \/ \E s \in StatusCodes : RespondStatus(s)
    \/ RequestTimeout
    \/ RequestException

(***************************************************************************)
(* Strings.  A Python str is a sequence of one-character strings, so that  *)
(* lower(), `in` (substring) and split('/') are computed, not assumed.     *)
(***************************************************************************)

\* str.lower() of one character
LowerChar(c) ==
    CASE c = "W" -> "w"
      [] c = "L" -> "l"
      [] c = "A" -> "a"
      [] c = "N" -> "n"
      [] OTHER -> c

\* s.lower()
Lower(s) == [i \in 1..Len(s) |-> LowerChar(s[i])]

\* needle in hay
Contains(hay, needle) ==
    \E i \in 0..(Len(hay) - Len(needle)) :
        SubSeq(hay, i + 1, i + Len(needle)) = needle

\* query.lower() in key.lower()
ContainsIgnoreCase(key, query) == Contains(Lower(key), Lower(query))

\* '/' in s
HasSlash(s) == \E i \in 1..Len(s) : s[i] = "/"

\* s.split('/')[-1]
LastSegment(s) ==
    IF HasSlash(s)
      THEN LET k == CHOOSE i \in 1..Len(s) :
                        s[i] = "/" /\ \A j \in (i + 1)..Len(s) : s[j] # "/"
           IN  SubSeq(s, k + 1, Len(s))
      ELSE s

sWLAN     == <<"W", "L", "A", "N">>
sWlanLow  == <<"w", "l", "a", "n">>
sWLANplus == <<"W", "L", "A", "N", "+">>
sLAN      == <<"L", "A", "N">>
sSw       == <<"s", "w">>
sRidWLAN  == <<"a", "/", "W", "L", "A", "N">>
sRidPlus  == <<"b", "/", "w", "l", "a", "n", "+">>
\* a dotted class name
sTextView == <<"a", ".", "T", "V">>

(***************************************************************************)
(* Python dicts.  A dict is the sequence of its <<key, value>> items in    *)
(* insertion order; assigning to a key it holds keeps the key's position.  *)
(***************************************************************************)

DictHas(d, k) == \E i \in 1..Len(d) : d[i][1] = k

\* d.get(k), None being 0 (element ids are positive)
DictGet(d, k) ==
    IF DictHas(d, k)
      THEN d[CHOOSE i \in 1..Len(d) : d[i][1] = k][2]
      ELSE 0

DictPut_keepFirst(d, k, v) ==
    IF DictHas(d, k) THEN d ELSE Append(d, <<k, v>>)
\* d[k] = v
DictPut(d, k, v) ==
    IF DictHas(d, k)
      THEN [i \in 1..Len(d) |-> IF d[i][1] = k THEN <<k, v>> ELSE d[i]]
      ELSE Append(d, <<k, v>>)

\* by_class: d.get(k, [])
DictGetList(d, k) ==
    IF DictHas(d, k)
      THEN d[CHOOSE i \in 1..Len(d) : d[i][1] = k][2]
      ELSE <<>>

(***************************************************************************)
(* ImprovedElementDictionary: load_from_files, _parse_elements             *)
(***************************************************************************)

\* most nodes of one hierarchy document
MaxNodes == 3

\* A node of a hierarchy document: the attributes _parse_elements reads.
\* bounds is the list of integers the bounds attribute splits into, <<>> when
\* the attribute is missing or one of its fields is not an integer.
Node(text, rid, desc, cls, clickable, editable, checkable, visible, bounds) ==
    [text |-> text, rid |-> rid, desc |-> desc, cls |-> cls,
     clickable |-> clickable, editable |-> editable, checkable |-> checkable,
     visible |-> visible, bounds |-> bounds]

\* coords = {}: falsy, and coords['center_x'] raises KeyError
NoCoords ==
    [valid |-> FALSE, left |-> 0, top |-> 0, right |-> 0, bottom |-> 0,
     center_x |-> 0, center_y |-> 0, width |-> 0, height |-> 0]

\* the coords dict built from the bounds attribute
Coords(bounds) ==
    IF Len(bounds) >= 4
      THEN [valid |-> TRUE,
            left |-> bounds[1], top |-> bounds[2],
            right |-> bounds[3], bottom |-> bounds[4],
            center_x |-> (bounds[1] + bounds[3]) \div 2,
            center_y |-> (bounds[2] + bounds[4]) \div 2,
            width |-> bounds[3] - bounds[1],
            height |-> bounds[4] - bounds[2]]
      ELSE NoCoords

\* bounds="[0,0][20,10]"
bRect == <<0, 0, 20, 10>>

\* a clickable, visible text view carrying the three identifying attributes
Labelled(text, rid, desc) ==
    Node(text, rid, desc, sTextView, TRUE, FALSE, FALSE, TRUE, bRect)

\* the nodes the resolver is exercised on: they differ in text, resource-id
\* and content-desc
ResolverNodes ==
    { Labelled(sWLAN, <<>>, <<>>),
      Labelled(<<>>, sRidWLAN, <<>>),
      Labelled(<<>>, <<>>, sWLAN),
      Labelled(sWLANplus, <<>>, <<>>),
      Labelled(sWlanLow, <<>>, sWLANplus),
      Labelled(<<>>, sWLAN, <<>>),
      Labelled(<<>>, sRidPlus, sSw) }

\* the hierarchy documents over a set of nodes, nodes listed in pre-order
DocsOver(nodes) == UNION { [1..n -> nodes] : n \in 0..MaxNodes }

\* the queries passed to find_element
Queries == { sWLAN, sLAN, sSw, sTextView, <<>> }

\* the values of find_element's `by`
ByValues == { "auto", "text", "resource_id", "content_desc", "class" }

\* the app-info document read by load_from_files
AppInfos == { "com.android.settings" }

\* The values uuid.uuid4().hex[:8] returns while n nodes are parsed.  The 8
\* hex digits are random, so two nodes can draw the same one.  An id is an
\* opaque token: the draws are named 1, 2, ... in the order of first use.
ElementIds(n) ==
    { s \in [1..n -> 1..n] :
        \A k \in 1..n :
            \/ s[k] = 1
            \/ \E j \in 1..(k - 1) : s[j] = s[k] - 1 }

\* the last node that drew id e
LastWith(ids, e) ==
    CHOOSE p \in 1..Len(ids) :
        ids[p] = e /\ \A q \in (p + 1)..Len(ids) : ids[q] # e

\* element_info of node n, whose element_id is i
ElementInfo(i, n) ==
    [id |-> i, text |-> n.text, desc |-> n.desc, resource_id |-> n.rid,
     type |-> n.cls, clickable |-> n.clickable, editable |-> n.editable,
     checkable |-> n.checkable, visible |-> n.visible,
     coords |-> Coords(n.bounds)]

\* the value None where an element_info is expected
NoElement ==
    [id |-> 0, text |-> <<>>, desc |-> <<>>, resource_id |-> <<>>,
     type |-> <<>>, clickable |-> FALSE, editable |-> FALSE,
     checkable |-> FALSE, visible |-> FALSE, coords |-> NoCoords]

\* element_index right after it is cleared in load_from_files
EmptyIndex ==
    [by_text |-> <<>>, by_resource_id |-> <<>>,
     by_content_desc |-> <<>>, by_class |-> <<>>]

\* the "add to index" block of _parse_elements for the node at position i
IndexNode(idx, i, n) ==
    LET t1 == IF n.text # <<>>
                THEN DictPut(idx.by_text, n.text, i)
                ELSE idx.by_text
        r1 == IF n.rid # <<>>
                THEN DictPut(idx.by_resource_id, n.rid, i)
                ELSE idx.by_resource_id
        r2 == IF n.rid # <<>> /\ HasSlash(n.rid)
                THEN DictPut(r1, LastSegment(n.rid), i)
                ELSE r1
        d1 == IF n.desc # <<>>
                THEN DictPut(idx.by_content_desc, n.desc, i)
                ELSE idx.by_content_desc
        c1 == IF n.cls # <<>>
                THEN DictPut(idx.by_class, n.cls,
                             Append(DictGetList(idx.by_class, n.cls), i))
                ELSE idx.by_class
    IN  [by_text |-> t1, by_resource_id |-> r2,
         by_content_desc |-> d1, by_class |-> c1]

\* the index after _parse_elements has visited the first k nodes, node p
\* under the id ids[p]
RECURSIVE IndexOf(_, _, _)
IndexOf(doc, ids, k) ==
    IF k = 0 THEN EmptyIndex
    ELSE IndexNode(IndexOf(doc, ids, k - 1), ids[k], doc[k])

\* self.elements after the traversal: self.elements[element_id] = element_info
\* node after node, a later node replacing an earlier one of the same id
ElementsOf(doc, ids) ==
    [e \in { ids[p] : p \in 1..Len(doc) } |->
        ElementInfo(e, doc[LastWith(ids, e)])]

\* is_interactive = clickable or long_clickable or checkable or scrollable or editable
IsInteractive(n) == n.clickable \/ n.checkable \/ n.editable

\* no find_element call has been made on the dictionary as it is now
NoFindCall == [query |-> <<>>, by |-> "none", raised |-> FALSE]

\* the state after __init__; the document on disk is any document
DictInit(docs) ==
    /\ xml_file \in docs
    /\ capture = <<>>
    /\ uuids = <<>>
    /\ reloaded = FALSE
    /\ elements = <<>>
    /\ interactive_elements = {}
    /\ element_index = <<>>
    /\ app_info = "{}"
    /\ fe_call = NoFindCall
    /\ fe_result = NoElement

LoadFromFiles_keepingInteractive(info, ids) ==
    /\ app_info' = info
    /\ capture' = xml_file
    /\ uuids' = ids
    /\ reloaded' = (reloaded \/ elements # <<>>)
    /\ elements' = ElementsOf(xml_file, ids)
    /\ interactive_elements' = interactive_elements \cup
          { ids[p] : p \in { q \in 1..Len(xml_file) : IsInteractive(xml_file[q]) } }
    /\ element_index' = IndexOf(xml_file, ids, Len(xml_file))
    /\ fe_call' = NoFindCall
    /\ fe_result' = NoElement
    /\ UNCHANGED xml_file
    /\ UNCHANGED nonDictVars
\* load_from_files succeeds on the document on disk and app-info document
\* info, _parse_elements drawing the ids `ids`
LoadFromFiles(info, ids) ==
    /\ app_info' = info
    /\ capture' = xml_file
    /\ uuids' = ids
    /\ reloaded' = (reloaded \/ elements # <<>>)
    /\ elements' = ElementsOf(xml_file, ids)
    /\ interactive_elements' =
          { ids[p] : p \in { q \in 1..Len(xml_file) : IsInteractive(xml_file[q]) } }
    /\ element_index' = IndexOf(xml_file, ids, Len(xml_file))
    /\ fe_call' = NoFindCall
    /\ fe_result' = NoElement
    /\ UNCHANGED xml_file
    /\ UNCHANGED nonDictVars

\* where a load_from_files call that returns False can fail: opening or
\* decoding the app-info file, opening the XML file, parsing its content
LoadFailures == {"app_info_unreadable", "xml_unreadable", "xml_unparseable"}

\* the app-info documents successive captures write
CaptureInfos == {"com.android.settings", "com.android.launcher"}

\* load_from_files returns False: the except clause is reached from the
\* statement that raised.  self.app_info = json.load(f) is the first
\* assignment of the try block, the XML file is read and parsed after it, and
\* the elements and the index are cleared only once the XML has parsed
LoadFromFilesFails(failure, info) ==
    /\ app_info' = IF failure = "app_info_unreadable" THEN app_info ELSE info
    /\ UNCHANGED <<xml_file, capture, uuids, reloaded, elements,
                   interactive_elements, element_index>>
    /\ UNCHANGED feVars
    /\ UNCHANGED nonDictVars

\* dump_ui_hierarchy writes a new hierarchy document to data/element.xml:
\* the dictionary is untouched until the document is loaded
Recapture(doc) ==
    /\ xml_file' = doc
    /\ UNCHANGED <<capture, uuids, reloaded, elements, interactive_elements,
                   element_index, app_info>>
    /\ UNCHANGED feVars
    /\ UNCHANGED nonDictVars

\* the nodes the index is exercised on: a button whose resource-id has no
\* package prefix, and a label whose resource-id ends in the button's
IndexNodes ==
    { Node(sWLAN, sWLAN, sWLAN, sTextView, TRUE, FALSE, FALSE, TRUE, bRect),
      Node(sLAN, sRidWLAN, <<>>, sTextView, FALSE, FALSE, FALSE, TRUE, bRect) }

(***************************************************************************)
(* ImprovedElementDictionary: find_element                                 *)
(***************************************************************************)

\* find_element_id(query, by)
FindElementId(idx, query, by) ==
    CASE by = "text"         -> DictGet(idx.by_text, query)
      [] by = "resource_id"  -> DictGet(idx.by_resource_id, query)
      [] by = "content_desc" -> DictGet(idx.by_content_desc, query)
      [] by = "class" ->
            LET l == DictGetList(idx.by_class, query)
            IN  IF l # <<>> THEN l[1] ELSE 0
      [] OTHER -> 0

\* one `for key, element_id in mapping.items()` loop of find_element_id_fuzzy:
\* the id under the first key that contains the query, else 0
FirstContaining(d, query) ==
    LET hits == { i \in 1..Len(d) : ContainsIgnoreCase(d[i][1], query) }
    IN  IF hits = {} THEN 0
        ELSE d[CHOOSE i \in hits : \A j \in hits : i <= j][2]

\* the order in which find_element_id_fuzzy scans the mappings
FuzzyOrder == <<"by_text", "by_resource_id", "by_content_desc">>

\* find_element_id_fuzzy(query)
FindElementIdFuzzy(idx, query) ==
    LET h1 == FirstContaining(idx[FuzzyOrder[1]], query)
        h2 == FirstContaining(idx[FuzzyOrder[2]], query)
        h3 == FirstContaining(idx[FuzzyOrder[3]], query)
    IN  IF h1 # 0 THEN h1 ELSE IF h2 # 0 THEN h2 ELSE h3

\* for method in ['text', 'resource_id', 'content_desc']
AutoMethods == <<"text", "resource_id", "content_desc">>

\* the id find_element settles on
FindElementAutoId(idx, query) ==
    LET e1 == FindElementId(idx, query, AutoMethods[1])
        e2 == FindElementId(idx, query, AutoMethods[2])
        e3 == FindElementId(idx, query, AutoMethods[3])
        exact == IF e1 # 0 THEN e1 ELSE IF e2 # 0 THEN e2 ELSE e3
    IN  IF exact # 0 THEN exact ELSE FindElementIdFuzzy(idx, query)

\* find_element(query, by) on a loaded dictionary: the element_info or None
FindElementIn(elems, idx, query, by) ==
    LET element_id == IF by = "auto"
                        THEN FindElementAutoId(idx, query)
                        ELSE FindElementId(idx, query, by)
    IN  IF element_id # 0 /\ element_id \in DOMAIN elems
          THEN elems[element_id]
          ELSE NoElement

\* before the first successful load element_index is {} and every lookup of
\* one of its four mappings raises KeyError
FindRaises(idx) == idx = <<>>

FindElement_remembering(query, by) ==
    /\ fe_call' = [query |-> query, by |-> by, raised |-> FindRaises(element_index)]
    /\ fe_result' = IF FindRaises(element_index)
                      THEN NoElement
                      ELSE FindElementIn(elements, element_index, query, by)
    /\ interactive_elements' = interactive_elements \cup {fe_result'.id}
    /\ UNCHANGED <<xml_file, capture, uuids, reloaded, elements, element_index, app_info>>
    /\ UNCHANGED nonDictVars
\* a caller invokes find_element(query, by)
FindElement(query, by) ==
    /\ fe_call' = [query |-> query, by |-> by, raised |-> FindRaises(element_index)]
    /\ fe_result' = IF FindRaises(element_index)
                      THEN NoElement
                      ELSE FindElementIn(elements, element_index, query, by)
    /\ UNCHANGED dictVars
    /\ UNCHANGED nonDictVars

ResolverNext ==
    \/ \E info \in AppInfos : \E ids \in ElementIds(Len(xml_file)) :
          LoadFromFiles(info, ids)
    \/ \E q \in Queries, by \in ByValues : FindElement(q, by)

(***************************************************************************)
(* The device: the calls the handlers make on it                           *)
(***************************************************************************)

\* most device calls of one operation that raise
MaxFaults == 1

\* depth of the live hierarchy
MaxDepth == 7

\* most values of click_by_text's retry
MaxRetry == 3

\* most values of find_and_click_element's scroll_attempts
MaxScrollAttempts == 3

\* get_screen_size(): displayWidth, displayHeight
ScreenW == 1080

ScreenH == 1920

\* One device call.  pts are its coordinates, arg its string argument, ok is
\* FALSE when it raised; node is the element it was aimed at (0: none) and
\* on_clickable that element's clickable flag.
DevCall(op, pts, arg, node, on_clickable, ok) ==
    [op |-> op, pts |-> pts, arg |-> arg, node |-> node,
     on_clickable |-> on_clickable, ok |-> ok]

\* device.click(x, y)
ClickCall(x, y, node, on_clickable) ==
    DevCall("click", <<x, y>>, "", node, on_clickable, TRUE)

\* device.swipe(x1, y1, x2, y2, ...)
SwipeCall(x1, y1, x2, y2) ==
    DevCall("swipe", <<x1, y1, x2, y2>>, "", 0, FALSE, TRUE)

\* device.press(key)
PressCall(key) == DevCall("press", <<>>, key, 0, FALSE, TRUE)

\* a call with a string argument only: app_start, send_keys, clear_text, ...
PlainCall(op, arg) == DevCall(op, <<>>, arg, 0, FALSE, TRUE)

\* the call raised
Raised(call) == [call EXCEPT !.ok = FALSE]

\* the hierarchies: every assignment of clickable flags to the chain
Chains == [1..MaxDepth -> BOOLEAN]

\* the hierarchies find_and_click_element is exercised on: only the target
\* and its parent may be clickable
ScrollChains == { c \in Chains : \A k \in 1..(MaxDepth - 2) : ~c[k] }

\* no node is clickable
PlainChain == [k \in 1..MaxDepth |-> FALSE]

\* the node device(text=...) / device(resourceId=...) matches when the target
\* is on screen: the leaf of the chain
TargetNode == MaxDepth

\* element.info['bounds'] of node k: rectangles nested along the chain
DevBounds(k) ==
    [left |-> 0, top |-> 0,
     right |-> ScreenW - 100 * (k - 1), bottom |-> ScreenH - 100 * (k - 1)]

DevInit(impls, chains) ==
    /\ driver \in impls
    /\ dev_clickable \in chains
    /\ dev_home = FALSE
    /\ dev_log = <<>>
    /\ dev_faults = 0

(***************************************************************************)
(* ElementParser: find_element_by_text, find_element_by_id,                *)
(* _find_clickable_parent                                                  *)
(***************************************************************************)

\* while parent and attempts < 5
MaxParentLevels == 5

WalkGuard_inclusive(attempts) == attempts <= MaxParentLevels
\* attempts < 5
WalkGuard(attempts) == attempts < MaxParentLevels

\* the while loop of _find_clickable_parent; parent 0 is the falsy parent of
\* the root, the result 0 is None
RECURSIVE ParentWalk(_, _, _)
ParentWalk(flags, parent, attempts) ==
    IF parent # 0 /\ WalkGuard(attempts)
      THEN IF flags[parent]
             THEN parent
             ELSE ParentWalk(flags, parent - 1, attempts + 1)
      ELSE 0

\* _find_clickable_parent(element): parent = element.parent(); attempts = 0
FindClickableParent(flags, node) == ParentWalk(flags, node - 1, 0)

\* the result dict of find_element_by_text for node k
UiElement(k, clickable) ==
    LET b == DevBounds(k)
    IN  [node |-> k,
         bounds |-> [left |-> b.left, top |-> b.top,
                     right |-> b.right, bottom |-> b.bottom,
                     center_x |-> (b.left + b.right) \div 2,
                     center_y |-> (b.top + b.bottom) \div 2],
         clickable |-> clickable]

\* the value None where find_element_by_text's result is expected
NoUiElement ==
    [node |-> 0,
     bounds |-> [left |-> 0, top |-> 0, right |-> 0, bottom |-> 0,
                 center_x |-> 0, center_y |-> 0],
     clickable |-> FALSE]

\* find_element_by_text / find_element_by_id when the device matches node m
\* (m = 0: element.exists is false, or the lookup raised)
FindElementOnDevice(flags, m) ==
    IF m = 0 THEN NoUiElement
    ELSE IF flags[m] THEN UiElement(m, TRUE)
    ELSE LET clickable_parent == FindClickableParent(flags, m)
         IN  IF clickable_parent # 0
               THEN UiElement(clickable_parent, TRUE)
               ELSE UiElement(m, FALSE)

\* the lookup on the device, as logged: node is the node matched
FindCall(by, m) == DevCall("find", <<>>, by, m, FALSE, TRUE)

(***************************************************************************)
(* ui_automator InteractionHandler                                         *)
(***************************************************************************)

\* def click_by_text(self, text, exact_match=True, retry=3)
DefaultRetry == 3

\* def find_and_click_element(..., scroll_attempts=3)
DefaultScrollAttempts == 3

RestoreCount_all(n) == n
\* range(min(scroll_attempts, 2))
RestoreCount(n) == Min(n, 2)

\* scroll_down(): swipe(width // 2, height * 2 // 3, width // 2, height // 3)
ScrollDown ==
    SwipeCall(ScreenW \div 2, (ScreenH * 2) \div 3, ScreenW \div 2, ScreenH \div 3)

\* scroll_up(): swipe(width // 2, height // 3, width // 2, height * 2 // 3)
ScrollUp ==
    SwipeCall(ScreenW \div 2, ScreenH \div 3, ScreenW \div 2, (ScreenH * 2) \div 3)

\* scroll_horizontal(direction)
ScrollHorizontal(direction) ==
    IF direction = "right_to_left"
      THEN SwipeCall((ScreenW * 3) \div 4, ScreenH \div 2, ScreenW \div 4, ScreenH \div 2)
      ELSE SwipeCall(ScreenW \div 4, ScreenH \div 2, (ScreenW * 3) \div 4, ScreenH \div 2)

\* the scroll of the search loop
ForwardScroll(dir) ==
    IF dir = "horizontal" THEN ScrollHorizontal("right_to_left") ELSE ScrollDown

\* the scroll of the restore loop
ReverseScroll(dir) ==
    IF dir = "horizontal" THEN ScrollHorizontal("left_to_right") ELSE ScrollUp

UiInit ==
    /\ ui_op = "none"
    /\ ui_pc = "idle"
    /\ ui_by = "none"
    /\ ui_N = 0
    /\ ui_retry = 0
    /\ ui_i = 0
    /\ ui_try = 0
    /\ ui_r = 0
    /\ ui_dir = "vertical"
    /\ ui_result = "pending"
    /\ ui_matched = 0
    /\ ui_found = NoUiElement

\* no operation of the handler is running
UiReady == driver = "ui" /\ ui_pc \in {"idle", "done"}

\* the operation returns res
UiReturn(res) == ui_pc' = "done" /\ ui_result' = res

\* where find_and_click_element goes after a search that did not click, i
\* forward scrolls having been performed
AfterSearch(n, i) ==
    IF i < n THEN ui_pc' = "scroll" /\ ui_result' = "pending"
    ELSE IF RestoreCount(n) > 0 THEN ui_pc' = "restore" /\ ui_result' = "pending"
    ELSE UiReturn("False")

\* click_by_text / click_by_id returned False
ClickByFailed ==
    IF ui_op = "find_and_click_element"
      THEN AfterSearch(ui_N, ui_i)
      ELSE UiReturn("False")

LoopAgain_oneMore ==
    IF ui_try + 1 <= ui_retry
      THEN ui_try' = ui_try + 1 /\ ui_pc' = "lookup" /\ ui_result' = "pending"
      ELSE ui_try' = 0 /\ ClickByFailed
\* one iteration of the click_by_* loop ended without a click that returned
LoopAgain ==
    IF ui_try + 1 < ui_retry
      THEN ui_try' = ui_try + 1 /\ ui_pc' = "lookup" /\ ui_result' = "pending"
      ELSE ui_try' = 0 /\ ClickByFailed

\* a caller invokes click_by_text(text, retry=retry) or click_by_id(id, retry=retry)
ClickBy(by, retry) ==
    /\ UiReady
    /\ ui_op' = IF by = "text" THEN "click_by_text" ELSE "click_by_id"
    /\ ui_by' = by
    /\ ui_retry' = retry
    /\ ui_N' = 0
    /\ ui_i' = 0
    /\ ui_try' = 0
    /\ ui_r' = 0
    /\ ui_dir' = "vertical"
    /\ ui_matched' = 0
    /\ ui_found' = NoUiElement
    /\ dev_log' = <<>>
    /\ dev_faults' = 0
    /\ IF retry = 0
         THEN UiReturn("False")
         ELSE ui_pc' = "lookup" /\ ui_result' = "pending"
    /\ UNCHANGED <<driver, dev_clickable, dev_home>>
    /\ UNCHANGED nonUiVars

\* a caller invokes find_and_click_element(scroll_attempts=n) with target_text
\* (by = "text"), target_id (by = "id") or neither; parse_ui_hierarchy dumps
\* the hierarchy and recommends the scroll direction dir
FindAndClickElement(by, n, dir) ==
    /\ UiReady
    /\ ui_op' = "find_and_click_element"
    /\ ui_by' = by
    /\ ui_retry' = DefaultRetry
    /\ ui_N' = n
    /\ ui_i' = 0
    /\ ui_try' = 0
    /\ ui_r' = 0
    /\ ui_dir' = dir
    /\ ui_matched' = 0
    /\ ui_found' = NoUiElement
    /\ dev_log' = <<PlainCall("dump_hierarchy", "")>>
    /\ dev_faults' = 0
    /\ IF by # "none"
         THEN ui_pc' = "lookup" /\ ui_result' = "pending"
         ELSE AfterSearch(n, 0)
    /\ UNCHANGED <<driver, dev_clickable, dev_home>>
    /\ UNCHANGED nonUiVars

\* one iteration of the click_by_* loop in which the element is not found
LookupMiss ==
    /\ driver = "ui"
    /\ ui_pc = "lookup"
    /\ dev_log' = Append(dev_log, FindCall(ui_by, 0))
    /\ ui_matched' = 0
    /\ ui_found' = NoUiElement
    /\ LoopAgain
    /\ UNCHANGED <<ui_op, ui_by, ui_N, ui_retry, ui_i, ui_r, ui_dir>>
    /\ UNCHANGED <<driver, dev_clickable, dev_home, dev_faults>>
    /\ UNCHANGED nonUiVars

LookupHitClick_thenRestore(ok) ==
    /\ driver = "ui"
    /\ ui_pc = "lookup"
    /\ ok \/ dev_faults < MaxFaults
    /\ \E element_info \in {FindElementOnDevice(dev_clickable, TargetNode)} :
       \E click \in {ClickCall(element_info.bounds.center_x,
                               element_info.bounds.center_y,
                               element_info.node,
                               dev_clickable[element_info.node])} :
          /\ ui_matched' = TargetNode
          /\ ui_found' = element_info
          /\ dev_log' = dev_log \o <<FindCall(ui_by, TargetNode),
                                     IF ok THEN click ELSE Raised(click)>>
    /\ IF ok
         THEN /\ ui_try' = ui_try /\ dev_faults' = dev_faults
              /\ IF ui_op = "find_and_click_element" /\ RestoreCount(ui_N) > 0
                   THEN ui_pc' = "restore" /\ ui_result' = "pending"
                   ELSE UiReturn("True")
         ELSE LoopAgain /\ dev_faults' = dev_faults + 1
    /\ UNCHANGED <<ui_op, ui_by, ui_N, ui_retry, ui_i, ui_r, ui_dir>>
    /\ UNCHANGED <<driver, dev_clickable, dev_home>>
    /\ UNCHANGED nonUiVars
\* one iteration of the click_by_* loop in which the element is found and
\* its centre clicked; the click returns (ok) or raises
LookupHitClick(ok) ==
    /\ driver = "ui"
    /\ ui_pc = "lookup"
    /\ ok \/ dev_faults < MaxFaults
    /\ \E element_info \in {FindElementOnDevice(dev_clickable, TargetNode)} :
       \E click \in {ClickCall(element_info.bounds.center_x,
                               element_info.bounds.center_y,
                               element_info.node,
                               dev_clickable[element_info.node])} :
          /\ ui_matched' = TargetNode
          /\ ui_found' = element_info
          /\ dev_log' = dev_log \o <<FindCall(ui_by, TargetNode),
                                     IF ok THEN click ELSE Raised(click)>>
    /\ IF ok
         THEN ui_try' = ui_try /\ UiReturn("True") /\ dev_faults' = dev_faults
         ELSE LoopAgain /\ dev_faults' = dev_faults + 1
    /\ UNCHANGED <<ui_op, ui_by, ui_N, ui_retry, ui_i, ui_r, ui_dir>>
    /\ UNCHANGED <<driver, dev_clickable, dev_home>>
    /\ UNCHANGED nonUiVars

\* one iteration of the search loop up to its click_by_* call: the forward
\* scroll, whose swipe returns (ok) or raises inside scroll_down
ScrollForward(ok) ==
    /\ driver = "ui"
    /\ ui_pc = "scroll"
    /\ ok \/ dev_faults < MaxFaults
    /\ dev_log' = Append(dev_log, IF ok THEN ForwardScroll(ui_dir)
                                        ELSE Raised(ForwardScroll(ui_dir)))
    /\ dev_faults' = IF ok THEN dev_faults ELSE dev_faults + 1
    /\ ui_i' = ui_i + 1
    /\ IF ui_by # "none"
         THEN ui_pc' = "lookup" /\ ui_result' = "pending"
         ELSE AfterSearch(ui_N, ui_i + 1)
    /\ UNCHANGED <<ui_op, ui_by, ui_N, ui_retry, ui_try, ui_r, ui_dir,
                   ui_matched, ui_found>>
    /\ UNCHANGED <<driver, dev_clickable, dev_home>>
    /\ UNCHANGED nonUiVars

\* one iteration of the restore loop; after the last one, return False
ScrollReverse(ok) ==
    /\ driver = "ui"
    /\ ui_pc = "restore"
    /\ ok \/ dev_faults < MaxFaults
    /\ dev_log' = Append(dev_log, IF ok THEN ReverseScroll(ui_dir)
                                        ELSE Raised(ReverseScroll(ui_dir)))
    /\ dev_faults' = IF ok THEN dev_faults ELSE dev_faults + 1
    /\ ui_r' = ui_r + 1
    /\ IF ui_r + 1 < RestoreCount(ui_N)
         THEN ui_pc' = "restore" /\ ui_result' = "pending"
         ELSE UiReturn("False")
    /\ UNCHANGED <<ui_op, ui_by, ui_N, ui_retry, ui_i, ui_try, ui_dir,
                   ui_matched, ui_found>>
    /\ UNCHANGED <<driver, dev_clickable, dev_home>>
    /\ UNCHANGED nonUiVars

\* a caller invokes find_element_by_text / find_element_by_id; the device
\* matches the target (present) or not
FindElementBy(by, present) ==
    /\ UiReady
    /\ ui_op' = IF by = "text" THEN "find_element_by_text" ELSE "find_element_by_id"
    /\ ui_by' = by
    /\ ui_matched' = IF present THEN TargetNode ELSE 0
    /\ ui_found' = FindElementOnDevice(dev_clickable, IF present THEN TargetNode ELSE 0)
    /\ dev_log' = <<FindCall(by, IF present THEN TargetNode ELSE 0)>>
    /\ dev_faults' = 0
    /\ ui_pc' = "done"
    /\ ui_result' = "pending"
    /\ ui_retry' = 0
    /\ ui_N' = 0
    /\ ui_i' = 0
    /\ ui_try' = 0
    /\ ui_r' = 0
    /\ ui_dir' = "vertical"
    /\ UNCHANGED <<driver, dev_clickable, dev_home>>
    /\ UNCHANGED nonUiVars

\* what go_home() returns, whatever the screen shows after the key press
GoHomeResult_verified(shown) == IF shown THEN "True" ELSE "False"
\* return True
GoHomeResult(shown) == "True"

\* the handler state after an operation that neither looks up nor scrolls
UiPlainOp(op, res) ==
    /\ ui_op' = op
    /\ ui_result' = res
    /\ ui_pc' = "done"
    /\ ui_by' = "none"
    /\ ui_retry' = 0
    /\ ui_N' = 0
    /\ ui_i' = 0
    /\ ui_try' = 0
    /\ ui_r' = 0
    /\ ui_dir' = "vertical"
    /\ ui_matched' = 0
    /\ ui_found' = NoUiElement

\* go_back(): press_key("BACK") swallows what device.press raises
GoBack(ok) ==
    /\ UiReady
    /\ ok \/ MaxFaults > 0
    /\ dev_log' = <<IF ok THEN PressCall("back") ELSE Raised(PressCall("back"))>>
    /\ dev_faults' = IF ok THEN 0 ELSE 1
    /\ UiPlainOp("go_back", "True")
    /\ UNCHANGED <<driver, dev_clickable, dev_home>>
    /\ UNCHANGED nonUiVars

\* go_home(): press_key("HOME") swallows what device.press raises; shown is
\* whether the launcher shows after a press that went through
GoHome(ok, shown) ==
    /\ UiReady
    /\ ok \/ MaxFaults > 0
    /\ dev_log' = <<IF ok THEN PressCall("home") ELSE Raised(PressCall("home"))>>
    /\ dev_faults' = IF ok THEN 0 ELSE 1
    /\ dev_home' = IF ok THEN shown ELSE dev_home
    /\ UiPlainOp("go_home", GoHomeResult(dev_home'))
    /\ UNCHANGED <<driver, dev_clickable>>
    /\ UNCHANGED nonUiVars

\* the "全选" (select all) entry of the menu a long press brings up
sSelectAll == "select_all"

\* The device calls of input_text_to_field when none raises: the lookup, and
\* with an element found the click, the long press, the lookup of "全选"
\* (clicked when sel: it exists), the DEL key and the text.  The element's
\* editable flag is not read.
InputCalls(by, m, element, sel, text) ==
    (IF by = "none" THEN <<>> ELSE <<FindCall(by, m)>>)
    \o (IF element = NoUiElement THEN <<>>
        ELSE <<ClickCall(element.bounds.center_x, element.bounds.center_y,
                         element.node, element.clickable),
               DevCall("long_click",
                       <<element.bounds.center_x, element.bounds.center_y>>,
                       "", element.node, element.clickable, TRUE),
               FindCall(sSelectAll, 0)>>
             \o (IF sel THEN <<DevCall("click", <<>>, sSelectAll, 0, FALSE, TRUE)>>
                 ELSE <<>>)
             \o <<PressCall("delete"), PlainCall("send_keys", text)>>)

Swallowed_onlyPress(call) == call.op = "press"
\* what the call raises is swallowed: the "全选" step sits in its own
\* try/except, press_key catches what device.press raises
Swallowed(call) == call.arg = sSelectAll \/ call.op = "press"

\* the calls made when call number fault raises (0: none does)
InputLog(calls, fault) ==
    IF fault = 0 THEN calls
    ELSE IF Swallowed(calls[fault])
      THEN [i \in 1..Len(calls) |-> IF i = fault THEN Raised(calls[i]) ELSE calls[i]]
    ELSE Append(SubSeq(calls, 1, fault - 1), Raised(calls[fault]))

\* what input_text_to_field returns
InputResult(element, calls, fault) ==
    IF element = NoUiElement THEN "False"
    ELSE IF fault = 0 \/ Swallowed(calls[fault]) THEN "True"
    ELSE "False"

\* input_text_to_field(field_text / field_id, input_text): present tells
\* whether the device matches the target, sel whether "全选" is offered
InputTextToField(by, present, sel, text) ==
    /\ UiReady
    /\ \E m \in {IF present /\ by # "none" THEN TargetNode ELSE 0} :
       \E element \in {FindElementOnDevice(dev_clickable, m)} :
       \E calls \in {InputCalls(by, m, element, sel, text)} :
       \E fault \in (IF MaxFaults > 0 THEN 0..Len(calls) ELSE {0}) :
          \* a lookup that raises matches nothing, and after a "全选" lookup
          \* that raises nothing is clicked
          /\ fault # 0 /\ calls[fault].op = "find" => ~sel
          /\ fault = 1 => ~present
          /\ dev_log' = InputLog(calls, fault)
          /\ dev_faults' = IF fault = 0 THEN 0 ELSE 1
          /\ ui_result' = InputResult(element, calls, fault)
          /\ ui_matched' = m
          /\ ui_found' = element
    /\ ui_op' = "input_text_to_field"
    /\ ui_pc' = "done"
    /\ ui_by' = by
    /\ ui_retry' = 0
    /\ ui_N' = 0
    /\ ui_i' = 0
    /\ ui_try' = 0
    /\ ui_r' = 0
    /\ ui_dir' = "vertical"
    /\ UNCHANGED <<driver, dev_clickable, dev_home>>
    /\ UNCHANGED nonUiVars

\* the texts typed into a field
InputTexts == {"abc"}

UiInputNext ==
    \E by \in {"text", "id", "none"}, present \in BOOLEAN, sel \in BOOLEAN,
       text \in InputTexts : InputTextToField(by, present, sel, text)

\* ElementParser lookups, click_by_text / click_by_id, go_back, go_home
UiClickNext ==
    \/ \E by \in {"text", "id"}, present \in BOOLEAN : FindElementBy(by, present)
    \/ \E by \in {"text", "id"}, retry \in 0..MaxRetry : ClickBy(by, retry)
    \/ LookupMiss
    \/ \E ok \in BOOLEAN : LookupHitClick(ok)
    \/ \E ok \in BOOLEAN : GoBack(ok)
    \/ \E ok \in BOOLEAN, shown \in BOOLEAN : GoHome(ok, shown)

\* find_and_click_element
UiScrollNext ==
    \/ \E by \in {"text", "id", "none"}, n \in 0..MaxScrollAttempts,
          dir \in {"vertical", "horizontal"} : FindAndClickElement(by, n, dir)
    \/ \E ok \in BOOLEAN : ScrollForward(ok)
    \/ \E ok \in BOOLEAN : ScrollReverse(ok)

UiNext == UiClickNext \/ UiScrollNext

(***************************************************************************)
(* ui_automator InteractionHandler.wait_element, and the awaited element   *)
(* coming up on the screen                                                 *)
(***************************************************************************)

\* largest timeout passed to a wait, in seconds
MaxTimeout == 2

\* most half-seconds one time.sleep(0.5) and the lookup before it take
MaxPollTicks == 2

\* seconds in half-seconds
HalfSeconds(seconds) == seconds + seconds

WInit(editables) ==
    /\ dev_editable \in editables
    /\ w_pc = "idle"
    /\ w_by = "none"
    /\ w_timeout = 0
    /\ w_now = 0
    /\ w_result = "pending"
    /\ dev_target = FALSE
    /\ w_in_time = FALSE

\* a caller invokes wait_element(target_text / target_id, timeout):
\* start_time = time.time()
WaitElement(by, timeout) ==
    /\ driver = "ui"
    /\ w_pc \in {"idle", "done"}
    /\ w_pc' = "loop"
    /\ w_by' = by
    /\ w_timeout' = HalfSeconds(timeout)
    /\ w_now' = 0
    /\ w_result' = "pending"
    /\ w_in_time' = (dev_target /\ timeout > 0)
    /\ dev_log' = <<>>
    /\ dev_faults' = 0
    /\ UNCHANGED <<driver, dev_clickable, dev_home, dev_target, dev_editable>>
    /\ UNCHANGED nonWaitVars

\* while time.time() - start_time < timeout: the test fails, return False
WaitTimedOut ==
    /\ driver = "ui"
    /\ w_pc = "loop"
    /\ ~(w_now < w_timeout)
    /\ w_pc' = "done"
    /\ w_result' = "False"
    /\ UNCHANGED <<w_by, w_timeout, w_now, dev_target, dev_editable, w_in_time>>
    /\ UNCHANGED devVars
    /\ UNCHANGED nonWaitVars

\* One iteration up to the sleep: find_element_by_text / find_element_by_id
\* looks the target up on the device (a lookup that raises gives None); the
\* element found, return True.  With neither argument nothing is looked up.
WaitPoll(ok) ==
    /\ driver = "ui"
    /\ w_pc = "loop"
    /\ w_now < w_timeout
    /\ ok \/ (w_by # "none" /\ dev_faults < MaxFaults)
    /\ \E found \in {w_by # "none" /\ dev_target /\ ok} :
          /\ dev_log' =
                IF w_by = "none" THEN dev_log
                ELSE Append(dev_log,
                       IF ok THEN FindCall(w_by, IF found THEN TargetNode ELSE 0)
                       ELSE Raised(FindCall(w_by, 0)))
          /\ w_pc' = IF found THEN "done" ELSE "sleep"
          /\ w_result' = IF found THEN "True" ELSE "pending"
    /\ dev_faults' = IF ok THEN dev_faults ELSE dev_faults + 1
    /\ UNCHANGED <<w_by, w_timeout, w_now, dev_target, dev_editable, w_in_time>>
    /\ UNCHANGED <<driver, dev_clickable, dev_home>>
    /\ UNCHANGED nonWaitVars

\* time.sleep(0.5) and the print after it: back at the loop test d
\* half-seconds after the lookup was started
WaitSleep(d) ==
    /\ driver = "ui"
    /\ w_pc = "sleep"
    /\ w_pc' = "loop"
    /\ w_now' = w_now + d
    /\ UNCHANGED <<w_by, w_timeout, w_result, dev_target, dev_editable, w_in_time>>
    /\ UNCHANGED devVars
    /\ UNCHANGED nonWaitVars

\* The screen changes: the awaited element comes up and stays.  During a
\* wait_element call this is right after the lookup of the instant w_now;
\* for the utils handler it is before find_and_perform_action is called.
TargetAppears ==
    /\ ~dev_target
    /\ \/ driver = "ui" /\ w_pc \in {"idle", "loop", "sleep"}
       \/ driver = "utils" /\ h_result = "none"
    /\ dev_target' = TRUE
    /\ w_in_time' = (w_pc \in {"loop", "sleep"} /\ w_now < w_timeout)
    /\ UNCHANGED <<w_pc, w_by, w_timeout, w_now, w_result, dev_editable>>
    /\ UNCHANGED devVars
    /\ UNCHANGED nonWaitVars

WaitNext ==
    \/ \E by \in {"text", "id", "none"}, timeout \in 0..MaxTimeout :
          WaitElement(by, timeout)
    \/ WaitTimedOut
    \/ \E ok \in BOOLEAN : WaitPoll(ok)
    \/ \E d \in 1..MaxPollTicks : WaitSleep(d)
    \/ TargetAppears

(***************************************************************************)
(* utils InteractionHandler                                                *)
(***************************************************************************)

\* An action as the planner describes it, and a find_and_perform_action
\* call: keys are the dict keys (keyword arguments) that are present.
ActionOf(keys, action, target, text, direction, timeout) ==
    [keys |-> keys, action |-> action, target |-> target, text |-> text,
     direction |-> direction, timeout |-> timeout]

\* d.get(k, default)
Get(d, k, default) == IF k \in d.keys THEN d[k] ELSE default

\* str.upper() of an action type
UpperStr(s) ==
    CASE s = "click" -> "CLICK"
      [] s = "Home"  -> "HOME"
      [] s = "fly"   -> "FLY"
      [] OTHER -> s

\* str.lower() of a swipe direction
LowerStr(s) ==
    CASE s = "UP"    -> "up"
      [] s = "Left"  -> "left"
      [] s = "DOWN"  -> "down"
      [] s = "RIGHT" -> "right"
      [] OTHER -> s

\* the eight action types find_and_perform_action dispatches on
ActionTypes == {"OPEN", "CLICK", "INPUT", "SWIPE", "CHECK", "WAIT", "BACK", "HOME"}

\* the app names of app_mapping, each character transliterated
sSheZhi == <<"she", "zhi">>

sDuanXin == <<"duan", "xin">>

sDianHua == <<"dian", "hua">>

sXiangJi == <<"xiang", "ji">>

sTuKu == <<"tu", "ku">>

sLiuLanQi == <<"liu", "lan", "qi">>

AppMapping_settingsMissing(target) ==
    CASE target = sDuanXin  -> "com.android.mms"
      [] target = sDianHua  -> "com.android.dialer"
      [] target = sXiangJi  -> "com.android.camera"
      [] target = sTuKu     -> "com.android.gallery"
      [] target = sLiuLanQi -> "com.android.browser"
      [] OTHER -> ""
\* app_mapping.get(target), None being ""
AppMapping(target) ==
    CASE target = sSheZhi   -> "com.android.settings"
      [] target = sDuanXin  -> "com.android.mms"
      [] target = sDianHua  -> "com.android.dialer"
      [] target = sXiangJi  -> "com.android.camera"
      [] target = sTuKu     -> "com.android.gallery"
      [] target = sLiuLanQi -> "com.android.browser"
      [] OTHER -> ""

\* What a handler method does when no device call raises: its return value
\* ("raise" when it raises by itself), the device calls it makes, and whether
\* it catches what a device call raises.
Outcome(result, prims, catches) ==
    [result |-> result, prims |-> prims, catches |-> catches]

\* self.device.click(x, y) at the centre of an element
ClickAt(element) ==
    ClickCall(element.coords.center_x, element.coords.center_y,
              element.id, element.clickable)

CanClick_anyWithCoords(element) == element # NoElement /\ element.coords.valid
\* element and element.get('clickable', False) and element.get('coords')
CanClick(element) ==
    element # NoElement /\ element.clickable /\ element.coords.valid

\* click_element(query)
ClickElement(elems, idx, query) ==
    IF FindRaises(idx) THEN Outcome("raise", <<>>, FALSE)
    ELSE LET element == FindElementIn(elems, idx, query, "auto")
         IN  IF CanClick(element)
               THEN Outcome("True", <<ClickAt(element)>>, FALSE)
               ELSE Outcome("False", <<>>, FALSE)

\* input_text(query, text)
InputText(elems, idx, query, text) ==
    IF FindRaises(idx) THEN Outcome("raise", <<>>, FALSE)
    ELSE LET element == FindElementIn(elems, idx, query, "auto")
         IN  IF element # NoElement /\ element.editable
               THEN IF element.coords.valid
                      THEN Outcome("True",
                                   <<ClickAt(element),
                                     PlainCall("clear_text", ""),
                                     PlainCall("send_keys", text)>>, FALSE)
                      ELSE Outcome("raise", <<>>, FALSE)
               ELSE Outcome("False", <<>>, FALSE)

\* check_element(query)
CheckElement(elems, idx, query) ==
    IF FindRaises(idx) THEN Outcome("raise", <<>>, FALSE)
    ELSE LET element == FindElementIn(elems, idx, query, "auto")
         IN  IF element # NoElement /\ element.checkable
               THEN IF element.coords.valid
                      THEN Outcome("True", <<ClickAt(element)>>, FALSE)
                      ELSE Outcome("raise", <<>>, FALSE)
               ELSE Outcome("False", <<>>, FALSE)

\* int(n * 0.7), int(n * 0.3): equal to n * 7 // 10 and n * 3 // 10 for the
\* screen size used here
Tenths(n, t) == (n * t) \div 10

\* swipe_screen(direction)
SwipeScreen(direction) ==
    LET cx == ScreenW \div 2
        cy == ScreenH \div 2
        d  == LowerStr(direction)
        size == PlainCall("window_size", "")
    IN  CASE d = "up" ->
               Outcome("True", <<size, SwipeCall(cx, Tenths(ScreenH, 7), cx, Tenths(ScreenH, 3))>>, FALSE)
          [] d = "down" ->
               Outcome("True", <<size, SwipeCall(cx, Tenths(ScreenH, 3), cx, Tenths(ScreenH, 7))>>, FALSE)
          [] d = "left" ->
               Outcome("True", <<size, SwipeCall(Tenths(ScreenW, 7), cy, Tenths(ScreenW, 3), cy)>>, FALSE)
          [] d = "right" ->
               Outcome("True", <<size, SwipeCall(Tenths(ScreenW, 3), cy, Tenths(ScreenW, 7), cy)>>, FALSE)
          [] OTHER -> Outcome("False", <<size>>, FALSE)

\* wait_for_element(query, timeout=timeout): the dictionary is not refreshed
\* while waiting, so the first poll decides; with timeout <= 0 there is none
WaitForElement(elems, idx, query, timeout) ==
    IF timeout <= 0 THEN Outcome("False", <<>>, FALSE)
    ELSE IF FindRaises(idx) THEN Outcome("raise", <<>>, FALSE)
    ELSE LET element == FindElementIn(elems, idx, query, "auto")
         IN  IF element # NoElement /\ element.visible
               THEN Outcome("True", <<>>, FALSE)
               ELSE Outcome("False", <<>>, FALSE)

\* back()
Back == Outcome("True", <<PressCall("back")>>, FALSE)

\* home()
Home == Outcome("True", <<PressCall("home")>>, FALSE)

\* launch_app(package_name): what app_start raises is caught, giving False
LaunchApp(package_name) ==
    Outcome("True", <<PlainCall("app_start", package_name)>>, TRUE)

\* find_and_perform_action(action_type, target, **kwargs) on the dictionary
\* (elems, idx)
FindAndPerformActionOn(elems, idx, call) ==
    LET action_type == UpperStr(call.action)
    IN  CASE action_type = "OPEN" ->
               IF AppMapping(call.target) # ""
                 THEN LaunchApp(AppMapping(call.target))
                 ELSE ClickElement(elems, idx, call.target)
          [] action_type = "CLICK" -> ClickElement(elems, idx, call.target)
          [] action_type = "INPUT" ->
               IF Get(call, "text", "") = ""
                 THEN Outcome("False", <<>>, FALSE)
                 ELSE InputText(elems, idx, call.target, Get(call, "text", ""))
          [] action_type = "SWIPE" ->
               SwipeScreen(LowerStr(Get(call, "direction", "up")))
          [] action_type = "CHECK" -> CheckElement(elems, idx, call.target)
          [] action_type = "WAIT" ->
               WaitForElement(elems, idx, call.target, Get(call, "timeout", 10))
          [] action_type = "BACK" -> Back
          [] action_type = "HOME" -> Home
          [] OTHER -> Outcome("False", <<>>, FALSE)

\* the outcome when device call number fault raises (0: none does): the calls
\* up to it are made, and the method raises unless it catches
WithFault(out, fault) ==
    IF fault = 0 THEN [result |-> out.result, prims |-> out.prims]
    ELSE [result |-> IF out.catches THEN "False" ELSE "raise",
          prims |-> Append(SubSeq(out.prims, 1, fault - 1),
                           Raised(out.prims[fault]))]

\* the device calls that may raise: any one of them, when faults are allowed
FaultsOf(out) == IF MaxFaults > 0 THEN 0..Len(out.prims) ELSE {0}

\* the launcher shows after the calls exactly when a home press among them
\* went through and the launcher came up (shown)
HomeAfter(prims, shown) ==
    IF \E i \in 1..Len(prims) :
          prims[i].op = "press" /\ prims[i].arg = "home" /\ prims[i].ok
      THEN shown
      ELSE dev_home

\* a node of text "WLAN" with the given flags and bounds
Flagged(clickable, editable, checkable, visible, bounds) ==
    Node(sWLAN, <<>>, <<>>, sTextView, clickable, editable, checkable, visible, bounds)

\* the nodes the handler is exercised on: a button, a label, a button and
\* an input field without bounds, input fields, a check box, a hidden button
HandlerNodes ==
    { Flagged(TRUE, FALSE, FALSE, TRUE, bRect),
      Flagged(FALSE, FALSE, FALSE, TRUE, bRect),
      Flagged(TRUE, FALSE, FALSE, TRUE, <<>>),
      Flagged(FALSE, TRUE, FALSE, TRUE, <<>>),
      Flagged(TRUE, TRUE, FALSE, TRUE, bRect),
      Flagged(FALSE, TRUE, FALSE, TRUE, bRect),
      Flagged(FALSE, FALSE, TRUE, TRUE, bRect),
      Flagged(TRUE, FALSE, FALSE, FALSE, bRect) }

\* the documents the handler is exercised on
HandlerDocs == {<<>>} \cup { <<n>> : n \in HandlerNodes }

\* the value of h_call before any call
NoCall == ActionOf({}, "", <<>>, "", "", 0)

HInit ==
    /\ h_call = NoCall
    /\ h_result = "none"

\* the actions the planner describes
PlannerActions ==
    { ActionOf({"action", "target"}, "OPEN", sSheZhi, "", "", 0),
      ActionOf({"action", "target"}, "OPEN", sWLAN, "", "", 0),
      ActionOf({"action", "target"}, "CLICK", sWLAN, "", "", 0),
      ActionOf({"action", "target"}, "click", sLAN, "", "", 0),
      ActionOf({"action", "target", "text"}, "INPUT", sWLAN, "abc", "", 0),
      ActionOf({"action", "target"}, "INPUT", sWLAN, "", "", 0),
      ActionOf({"action"}, "SWIPE", <<>>, "", "", 0),
      ActionOf({"action", "direction"}, "SWIPE", <<>>, "", "Left", 0),
      ActionOf({"action", "direction"}, "SWIPE", <<>>, "", "diagonal", 0),
      ActionOf({"action", "target"}, "CHECK", sWLAN, "", "", 0),
      ActionOf({"action", "target"}, "WAIT", sWLAN, "", "", 0),
      ActionOf({"action", "target", "timeout"}, "WAIT", sWLAN, "", "", 0),
      ActionOf({"action"}, "BACK", <<>>, "", "", 0),
      ActionOf({"action"}, "HOME", <<>>, "", "", 0),
      ActionOf({"action", "target"}, "FLY", sWLAN, "", "", 0),
      ActionOf({"action", "target"}, "UNKNOWN", sWLAN, "", "", 0),
      ActionOf({"target"}, "", sWLAN, "", "", 0) }

\* a caller invokes find_and_perform_action(call.action, call.target, ...) on
\* the handler over the dictionary; at most one of its device calls raises,
\* and shown tells whether the launcher comes up on a home press
FindAndPerformAction(call, shown) ==
    /\ driver = "utils"
    /\ "action" \in call.keys
    /\ \E out \in {FindAndPerformActionOn(elements, element_index, call)} :
       \E fault \in FaultsOf(out) :
       \E res \in {WithFault(out, fault)} :
          /\ h_call' = call
          /\ h_result' = res.result
          /\ dev_log' = res.prims
          /\ dev_faults' = IF fault = 0 THEN 0 ELSE 1
          /\ dev_home' = HomeAfter(res.prims, shown)
    /\ UNCHANGED <<driver, dev_clickable>>
    /\ UNCHANGED scVars
    /\ UNCHANGED nonUtilsVars

UtilsNext ==
    \E call \in PlannerActions, shown \in BOOLEAN :
        FindAndPerformAction(call, shown)

(***************************************************************************)
(* ImprovedActionAnalyzer: analyze_task, generate_interaction_code; the    *)
(* generated execute_test_step; the orchestrator's use of its result       *)
(***************************************************************************)

\* most actions of one planner answer
MaxBatch == 2

sUNKNOWN == <<"U", "N", "K", "N", "O", "W", "N">>

\* {"action": "UNKNOWN", "target": "UNKNOWN"}
UnknownAction == ActionOf({"action", "target"}, "UNKNOWN", sUNKNOWN, "", "", 0)

\* What get_action_analysis returns: a list of action dicts, one dict (with
\* or without an "action" key), or anything else (None, a string, ...).
PlannerOutputs ==
    { [kind |-> "list", items |-> l] :
        l \in UNION { [1..n -> PlannerActions] : n \in 0..MaxBatch } }
    \cup { [kind |-> "dict", items |-> <<a>>] : a \in PlannerActions }
    \cup { [kind |-> "other", items |-> <<>>] }

NormalizeActions_dropOther(out) ==
    IF out.kind = "list" THEN out.items
    ELSE IF out.kind = "dict" /\ "action" \in out.items[1].keys
      THEN <<out.items[1]>>
    ELSE <<>>
\* the normalisation at the end of analyze_task: the value under "actions"
NormalizeActions(out) ==
    IF out.kind = "list" THEN out.items
    ELSE IF out.kind = "dict" /\ "action" \in out.items[1].keys
      THEN <<out.items[1]>>
    ELSE <<UnknownAction>>

\* The statement generate_interaction_code emits for one action: a
\* find_and_perform_action call with the keyword arguments of its type, or
\* `success = False` for a type it does not know.  In both cases it is
\* followed by `if not success: return False`.
StatementOf(action) ==
    LET action_type == UpperStr(Get(action, "action", "UNKNOWN"))
        target == Get(action, "target", <<>>)
    IN  CASE action_type \in {"OPEN", "CLICK", "CHECK"} ->
               [kind |-> "call",
                call |-> ActionOf({"action", "target"}, action_type, target, "", "", 0)]
          [] action_type = "INPUT" ->
               [kind |-> "call",
                call |-> ActionOf({"action", "target", "text"}, action_type, target,
                                  Get(action, "text", ""), "", 0)]
          [] action_type = "SWIPE" ->
               [kind |-> "call",
                call |-> ActionOf({"action", "target", "direction"}, action_type, <<>>,
                                  "", Get(action, "direction", "UP"), 0)]
          [] action_type = "WAIT" ->
               [kind |-> "call",
                call |-> ActionOf({"action", "target", "timeout"}, action_type, target,
                                  "", "", Get(action, "timeout", 10))]
          [] action_type \in {"BACK", "HOME"} ->
               [kind |-> "call",
                call |-> ActionOf({"action", "target"}, action_type, <<>>, "", "", 0)]
          [] OTHER ->
               [kind |-> "fail",
                call |-> ActionOf({"action", "target"}, action_type, target, "", "", 0)]

\* the operations list after the loop of generate_interaction_code has
\* visited the first k actions
RECURSIVE OperationsOf(_, _)
OperationsOf(actions, k) ==
    IF k = 0 THEN <<>>
    ELSE Append(OperationsOf(actions, k - 1), StatementOf(actions[k]))

\* generate_interaction_code(actions): the operations of execute_test_step
GenerateInteractionCode(actions) == OperationsOf(actions, Len(actions))

ScInit ==
    /\ planner_out = [kind |-> "other", items |-> <<>>]
    /\ sc_actions = <<>>
    /\ sc_script = <<>>
    /\ sc_pc = "idle"
    /\ sc_done = <<>>
    /\ sc_result = "pending"
    /\ test_result = "none"

\* The orchestrator takes up a test case: analyze_task asks the planner,
\* which answers out, and normalises the answer.  The device log and the
\* record of handler calls start afresh with the test case.
AnalyzeTask(out) ==
    /\ driver = "script"
    /\ sc_pc \in {"idle", "recorded"}
    /\ planner_out' = out
    /\ sc_actions' = NormalizeActions(out)
    /\ sc_script' = <<>>
    /\ sc_pc' = "analyzed"
    /\ sc_done' = <<>>
    /\ sc_result' = "pending"
    /\ test_result' = "none"
    /\ dev_log' = <<>>
    /\ dev_faults' = 0
    /\ h_call' = NoCall
    /\ h_result' = "none"
    /\ UNCHANGED <<driver, dev_clickable, dev_home>>
    /\ UNCHANGED nonUtilsVars

\* generate_interaction_code(actions) on the actions analyze_task returned
GenerateScript ==
    /\ driver = "script"
    /\ sc_pc = "analyzed"
    /\ sc_script' = GenerateInteractionCode(sc_actions)
    /\ sc_pc' = "generated"
    /\ UNCHANGED <<planner_out, sc_actions, sc_done, sc_result, test_result>>
    /\ UNCHANGED devVars
    /\ UNCHANGED hVars
    /\ UNCHANGED nonUtilsVars

\* the script returns res
ScriptReturn(res) == sc_pc' = "returned" /\ sc_result' = res

\* main calls execute_test_step(device): the imports and the construction of
\* the handler over a fresh ImprovedElementDictionary() succeed (ok) or
\* raise; with no operations the script returns True
ExecuteTestStep(ok) ==
    /\ driver = "script"
    /\ sc_pc = "generated"
    /\ IF ~ok THEN ScriptReturn("raise")
       ELSE IF sc_script = <<>> THEN ScriptReturn("True")
       ELSE sc_pc' = "running" /\ sc_result' = "pending"
    /\ UNCHANGED <<planner_out, sc_actions, sc_script, sc_done, test_result>>
    /\ UNCHANGED devVars
    /\ UNCHANGED hVars
    /\ UNCHANGED nonUtilsVars

\* the dictionary of the script's handler: ImprovedElementDictionary() as
\* constructed, never loaded
FreshElements == <<>>

FreshIndex == <<>>

ReturnOnFailure_never(success, last) == last
\* `if not success: return False` after every statement, `return True` after
\* the last one
ReturnOnFailure(success, last) == ~success \/ last

\* what statement stmt of the script does when no device call raises
StatementOutcome(stmt) ==
    IF stmt.kind = "call"
      THEN FindAndPerformActionOn(FreshElements, FreshIndex, stmt.call)
      ELSE Outcome("False", <<>>, FALSE)

\* execute_test_step runs its next statement and the check that follows it
ScriptStep(shown) ==
    /\ driver = "script"
    /\ sc_pc = "running"
    /\ \E k \in {Len(sc_done) + 1} :
       \E stmt \in {sc_script[k]} :
       \E out \in {StatementOutcome(stmt)} :
       \E fault \in FaultsOf(out) :
       \E res \in {WithFault(out, fault)} :
          /\ sc_done' = Append(sc_done, [idx |-> k, result |-> res.result,
                                         prims |-> res.prims])
          /\ dev_log' = dev_log \o res.prims
          /\ dev_faults' = IF fault = 0 THEN dev_faults ELSE dev_faults + 1
          /\ dev_home' = HomeAfter(res.prims, shown)
          /\ IF stmt.kind = "call"
               THEN h_call' = stmt.call /\ h_result' = res.result
               ELSE UNCHANGED hVars
          /\ IF res.result = "raise" THEN ScriptReturn("raise")
             ELSE IF ReturnOnFailure(res.result = "True", k = Len(sc_script))
               THEN ScriptReturn(res.result)
             ELSE sc_pc' = "running" /\ sc_result' = "pending"
    /\ UNCHANGED <<planner_out, sc_actions, sc_script, test_result>>
    /\ UNCHANGED <<driver, dev_clickable>>
    /\ UNCHANGED nonUtilsVars

\* main after execute_test_step: `if not result` (and the except clause)
\* record "fail"; otherwise the validator decides
RecordResult(validation_result) ==
    /\ driver = "script"
    /\ sc_pc = "returned"
    /\ test_result' = IF sc_result # "True" THEN "fail"
                      ELSE IF validation_result THEN "pass" ELSE "fail"
    /\ sc_pc' = "recorded"
    /\ UNCHANGED <<planner_out, sc_actions, sc_script, sc_done, sc_result>>
    /\ UNCHANGED devVars
    /\ UNCHANGED hVars
    /\ UNCHANGED nonUtilsVars

ScriptNext ==
    \/ \E out \in PlannerOutputs : AnalyzeTask(out)
    \/ GenerateScript
    \/ \E ok \in BOOLEAN : ExecuteTestStep(ok)
    \/ \E shown \in BOOLEAN : ScriptStep(shown)
    \/ \E v \in BOOLEAN : RecordResult(v)

(***************************************************************************)
(* The parsing helpers, called on their own                                *)
(***************************************************************************)

\* no helper has been called
NoPfCall == [op |-> "none", arg |-> <<>>]

PfInit ==
    /\ pf_call = NoPfCall
    /\ pf_result = <<>>

\* a helper `op` is called with `arg` and returns `result`
PfCall(op, arg, result) ==
    /\ pf_call' = [op |-> op, arg |-> arg]
    /\ pf_result' = result
    /\ UNCHANGED nonPfVars

\* ---- the bounds attribute: a string, one character per element ----

Digits == {"0", "1", "2", "3", "4", "5", "6", "7", "8", "9"}

DigitValue(c) ==
    CASE c = "0" -> 0 [] c = "1" -> 1 [] c = "2" -> 2 [] c = "3" -> 3
      [] c = "4" -> 4 [] c = "5" -> 5 [] c = "6" -> 6 [] c = "7" -> 7
      [] c = "8" -> 8 [] c = "9" -> 9

\* int() of a non-empty string of digits
RECURSIVE DigitsValue(_)
DigitsValue(ds) ==
    IF ds = <<>> THEN 0
    ELSE 10 * DigitsValue(SubSeq(ds, 1, Len(ds) - 1)) + DigitValue(ds[Len(ds)])

\* where the longest run of digits that starts at position i ends: the
\* position after it (\d+ is greedy)
RunEnd(s, i) ==
    CHOOSE j \in i..(Len(s) + 1) :
        /\ \A k \in i..(j - 1) : s[k] \in Digits
        /\ j = Len(s) + 1 \/ s[j] \notin Digits

\* the character c stands at position i
Lit(s, i, c) == i <= Len(s) /\ s[i] = c

\* the default of _parse_bounds
ZeroRect ==
    [left |-> 0, top |-> 0, right |-> 0, bottom |-> 0,
     center_x |-> 0, center_y |-> 0]

\* ElementParser._parse_bounds(bounds_str):
\* re.match(r'\[(\d+),(\d+)\]\[(\d+),(\d+)\]', bounds_str) matches a prefix
ParseBounds(bounds_str) ==
    LET s  == bounds_str
        a  == RunEnd(s, 2)
        b  == RunEnd(s, a + 1)
        c  == RunEnd(s, b + 2)
        d  == RunEnd(s, c + 1)
        x1 == DigitsValue(SubSeq(s, 2, a - 1))
        y1 == DigitsValue(SubSeq(s, a + 1, b - 1))
        x2 == DigitsValue(SubSeq(s, b + 2, c - 1))
        y2 == DigitsValue(SubSeq(s, c + 1, d - 1))
    IN  IF /\ Lit(s, 1, "[") /\ a > 2 /\ Lit(s, a, ",")
           /\ b > a + 1 /\ Lit(s, b, "]") /\ Lit(s, b + 1, "[")
           /\ c > b + 2 /\ Lit(s, c, ",")
           /\ d > c + 1 /\ Lit(s, d, "]")
          THEN [left |-> x1, top |-> y1, right |-> x2, bottom |-> y2,
                center_x |-> (x1 + x2) \div 2, center_y |-> (y1 + y2) \div 2]
          ELSE ZeroRect

\* s.replace('][', ',')
RECURSIVE ReplaceBrackets(_)
ReplaceBrackets(s) ==
    IF Len(s) < 2 THEN s
    ELSE IF s[1] = "]" /\ s[2] = "["
      THEN <<",">> \o ReplaceBrackets(SubSeq(s, 3, Len(s)))
      ELSE <<s[1]>> \o ReplaceBrackets(Tail(s))

\* s.strip(chars)
RECURSIVE Strip(_, _)
Strip(s, chars) ==
    IF s = <<>> THEN s
    ELSE IF s[1] \in chars THEN Strip(Tail(s), chars)
    ELSE IF s[Len(s)] \in chars THEN Strip(SubSeq(s, 1, Len(s) - 1), chars)
    ELSE s

\* s.split(','): the fields between the commas, at least one
RECURSIVE Split(_)
Split(s) ==
    IF \E i \in 1..Len(s) : s[i] = ","
      THEN LET k == CHOOSE i \in 1..Len(s) :
                        s[i] = "," /\ \A j \in 1..(i - 1) : s[j] # ","
           IN  <<SubSeq(s, 1, k - 1)>> \o Split(SubSeq(s, k + 1, Len(s)))
      ELSE <<s>>

\* int(b) succeeds: blanks around an optional sign and a run of digits
IsInt(b) ==
    LET t == Strip(b, {" "})
        u == IF t # <<>> /\ t[1] \in {"-", "+"} THEN Tail(t) ELSE t
    IN  u # <<>> /\ \A i \in 1..Len(u) : u[i] \in Digits

\* int(b)
IntOf(b) ==
    LET t == Strip(b, {" "})
    IN  IF t[1] = "-" THEN 0 - DigitsValue(Tail(t))
        ELSE IF t[1] = "+" THEN DigitsValue(Tail(t))
        ELSE DigitsValue(t)

\* the bounds parsing of _parse_elements up to the list of integers: <<>>
\* when the attribute is empty or a field is not an integer
BoundsList(bounds) ==
    LET fields == Split(Strip(ReplaceBrackets(bounds), {"[", "]"}))
    IN  IF bounds # <<>> /\ \A i \in 1..Len(fields) : IsInt(fields[i])
          THEN [i \in 1..Len(fields) |-> IntOf(fields[i])]
          ELSE <<>>

\* the numbers written in the bounds attributes tried
BoundsNumbers == { <<"0">>, <<"5">>, <<"1", "0">>, <<"-", "1">> }

\* "[a,b][c,d]"
RectString(a, b, c, d) ==
    <<"[">> \o a \o <<",">> \o b \o <<"]", "[">> \o c \o <<",">> \o d \o <<"]">>

\* the bounds attributes tried: rectangles written in the usual form, alone
\* or followed by something, and strings of another form
BoundsStrings ==
    { RectString(a, b, c, d) \o t :
        a \in BoundsNumbers, b \in BoundsNumbers,
        c \in BoundsNumbers, d \in BoundsNumbers,
        t \in { <<>>, <<"x">>, <<"[", "7">> } }
    \cup { <<>>, <<"x">>, <<"[", "0", ",", "0", "]">>,
           <<"0", ",", "0", ",", "5", ",", "5">>,
           <<" ">> \o RectString(<<"0">>, <<"0">>, <<"5">>, <<"5">>),
           RectString(<<"0">>, <<" ", "0">>, <<"5">>, <<"5">>),
           RectString(<<"0">>, <<"0">>, <<"5">>, <<"5">>) \o <<",", "9">>,
           <<"[", "0", ",", "0", "]", "[", "5", ",", "5">> }

\* ElementParser._parse_bounds is called on a bounds attribute
ParseBoundsCall(bounds_str) ==
    PfCall("_parse_bounds", bounds_str, ParseBounds(bounds_str))

\* _parse_elements computes the coords of a node with the bounds attribute
ParseCoordsCall(bounds) ==
    PfCall("coords", bounds, Coords(BoundsList(bounds)))

BoundsNext ==
    \/ \E s \in BoundsStrings : ParseBoundsCall(s)
    \/ \E s \in BoundsStrings : ParseCoordsCall(s)

\* ---- node paths ----

\* most children of one node
MaxSiblings == 3

\* s.split('.')[-1]
LastDotted(s) ==
    IF \E i \in 1..Len(s) : s[i] = "."
      THEN LET k == CHOOSE i \in 1..Len(s) :
                        s[i] = "." /\ \A j \in (i + 1)..Len(s) : s[j] # "."
           IN  SubSeq(s, k + 1, Len(s))
      ELSE s

\* \w for the characters used here: letters, digits and the underscore
IsWordChar(c) == c \notin {"+", "/", ".", " ", "[", "]", ",", "-"}

\* re.sub(r'[^\w]', '_', s)
CleanText(s) == [i \in 1..Len(s) |-> IF IsWordChar(s[i]) THEN s[i] ELSE "_"]

\* s[:20].replace(' ', '_').replace('\n', '_')
FriendlyText(s) ==
    LET t == SubSeq(s, 1, Min(20, Len(s)))
    IN  [i \in 1..Len(t) |-> IF t[i] = " " THEN "_" ELSE t[i]]

\* _generate_element_name(resource_id, text, desc, class_name)
GenerateElementName(n) ==
    IF n.rid # <<>> /\ HasSlash(n.rid) THEN LastSegment(n.rid)
    ELSE IF n.text # <<>> THEN FriendlyText(n.text)
    ELSE IF n.desc # <<>> THEN FriendlyText(n.desc)
    ELSE IF n.cls # <<>> THEN LastDotted(n.cls)
    ELSE <<"e", "l", "e", "m", "e", "n", "t">>

\* str(i) of a child index
IndexString(i) ==
    LET d(k) == CHOOSE c \in Digits : DigitValue(c) = k
    IN  IF i < 10 THEN <<d(i)>> ELSE <<d(i \div 10), d(i % 10)>>

\* current_path of _parse_elements for child number i (from 0) of a node
\* whose path is parent_path
DictPath(parent_path, n, i) ==
    parent_path \o <<"/">> \o GenerateElementName(n)
                \o <<"[">> \o IndexString(i) \o <<"]">>

\* current_path of ElementParser._parse_node; a node without a class
\* attribute (cls <<>>) is named "node"
NodePath(parent_path, n) ==
    LET node_id == LastSegment(n.rid)
        node_class == IF n.cls # <<>> THEN LastDotted(n.cls)
                      ELSE <<"n", "o", "d", "e">>
        prefix == IF parent_path # <<>> THEN parent_path \o <<"/">> ELSE <<>>
    IN  IF node_id # <<>> THEN prefix \o node_id
        ELSE IF n.text # <<>>
          THEN prefix \o node_class \o <<"_">> \o CleanText(n.text)
        ELSE prefix \o node_class

\* the children whose paths are built: one with a resource id, two with a
\* text, one with only a class, one with no attribute at all
PathNodes ==
    { Labelled(<<>>, sRidWLAN, <<>>),
      Labelled(sWLAN, <<>>, <<>>),
      Labelled(sWLANplus, <<>>, <<>>),
      Labelled(<<>>, <<>>, <<>>),
      Node(<<>>, <<>>, <<>>, <<>>, FALSE, FALSE, FALSE, TRUE, <<>>) }

\* the children of one node
SiblingLists == UNION { [1..n -> PathNodes] : n \in 1..MaxSiblings }

\* the path of the parent: none for the children of the document root
ParentPaths == { <<>>, <<"/", "n", "[", "0", "]">> }

\* _parse_elements builds the paths of the children of one node
DictPathsCall(parent_path, children) ==
    PfCall("dict_paths", <<parent_path, children>>,
           [i \in 1..Len(children) |-> DictPath(parent_path, children[i], i - 1)])

\* ElementParser._parse_node builds the paths of the children of one node
NodePathsCall(parent_path, children) ==
    PfCall("node_paths", <<parent_path, children>>,
           [i \in 1..Len(children) |-> NodePath(parent_path, children[i])])

PathsNext ==
    \/ \E parent_path \in ParentPaths, children \in SiblingLists :
          DictPathsCall(parent_path, children)
    \/ \E parent_path \in ParentPaths, children \in SiblingLists :
          NodePathsCall(parent_path, children)

\* ---- ElementParser._xml_to_json ----

\* most tokens of one dump
MaxXmlTokens == 3

\* A dump is a sequence of tokens: an opening tag, a closing tag, a childless
\* node, a childless node with a bare '&' in an attribute value, and a
\* childless node with an entity (&amp;) in an attribute value.
XmlTokens == {"open", "close", "leaf", "leaf_amp", "leaf_ent"}

XmlDumps == UNION { [1..n -> XmlTokens] : n \in 0..MaxXmlTokens }

\* ET.fromstring succeeds on the tokens from position i on, depth tags being
\* open and roots root elements closed so far: one root element, tags
\* balanced, no bare '&'
RECURSIVE Parses(_, _, _, _)
Parses(doc, i, depth, roots) ==
    IF i > Len(doc) THEN depth = 0 /\ roots = 1
    ELSE CASE doc[i] = "open" ->
                (depth > 0 \/ roots = 0) /\ Parses(doc, i + 1, depth + 1, roots)
           [] doc[i] = "close" ->
                depth > 0 /\ Parses(doc, i + 1, depth - 1,
                                    IF depth = 1 THEN roots + 1 ELSE roots)
           [] doc[i] \in {"leaf", "leaf_ent"} ->
                (depth > 0 \/ roots = 0) /\ Parses(doc, i + 1, depth,
                                    IF depth = 0 THEN roots + 1 ELSE roots)
           [] doc[i] = "leaf_amp" -> FALSE

\* xml_content.replace("&", "&amp;"): a bare '&' becomes an entity, and an
\* entity stays one ("&amp;" becomes "&amp;amp;")
EscapeAmpersands(doc) ==
    [i \in 1..Len(doc) |-> IF doc[i] = "leaf_amp" THEN "leaf_ent" ELSE doc[i]]

\* the number of nodes _parse_node returns for a dump that parses
NodeCount(doc) ==
    Cardinality({ i \in 1..Len(doc) : doc[i] # "close" })

\* _xml_to_json(xml_content), device.dump() answering (dump_ok) or raising:
\* what it returns, how many times it parsed, how many times it asked the
\* device for another dump
XmlToJson(xml_content, dump_ok) ==
    IF Parses(xml_content, 1, 0, 0)
      THEN [kind |-> "tree", nodes |-> NodeCount(xml_content),
            parses |-> 1, dumps |-> 0]
    ELSE IF Parses(EscapeAmpersands(xml_content), 1, 0, 0)
      THEN [kind |-> "tree", nodes |-> NodeCount(xml_content),
            parses |-> 2, dumps |-> 0]
    ELSE IF dump_ok
      THEN [kind |-> "simplified_elements", nodes |-> 0, parses |-> 2, dumps |-> 1]
      ELSE [kind |-> "empty_list", nodes |-> 0, parses |-> 2, dumps |-> 1]

\* _xml_to_json is called on a dump
XmlToJsonCall(xml_content, dump_ok) ==
    PfCall("_xml_to_json", xml_content, XmlToJson(xml_content, dump_ok))

XmlNext ==
    \E xml_content \in XmlDumps, dump_ok \in BOOLEAN :
        XmlToJsonCall(xml_content, dump_ok)

\* ---- ElementParser._analyze_scroll_direction ----

\* most nodes of one element tree
MaxTreeNodes == 4

\* class names, one word per element
cFrameLayout == <<"Frame", "Layout">>

cScrollView == <<"Scroll", "View">>

cRecyclerView == <<"Recycler", "View">>

cListView == <<"List", "View">>

cHorizontalScrollView == <<"Horizontal", "Scroll", "View">>

cViewPager == <<"View", "Pager">>

\* scroll_classes
ScrollClasses ==
    <<cScrollView, cRecyclerView, cListView, cHorizontalScrollView, cViewPager>>

\* the classes of the nodes of the trees analysed
TreeClasses ==
    { cFrameLayout, cScrollView, cRecyclerView, cHorizontalScrollView, cViewPager }

\* An element tree of n nodes, numbered in pre-order: parent[i] is the number
\* of the parent of node i (0 for the root), which lies on the path from the
\* root to node i - 1.  No node is the empty structure.
RECURSIVE IsAncestorOrSelf(_, _, _)
IsAncestorOrSelf(parent, a, i) ==
    IF i = 0 THEN FALSE
    ELSE IF i = a THEN TRUE
    ELSE IsAncestorOrSelf(parent, a, parent[i])

ParentMaps(n) ==
    { parent \in [1..n -> 0..(n - 1)] :
        /\ n > 0 => parent[1] = 0
        /\ \A i \in 2..n :
              parent[i] # 0 /\ IsAncestorOrSelf(parent, parent[i], i - 1) }

\* node["children"], in order
ChildrenOf(tree, i) ==
    { j \in 1..Len(tree.parent) : tree.parent[j] = i }

ScrollAnswer_pagerVertical(node_class) ==
    IF Contains(node_class, cHorizontalScrollView)
      THEN "horizontal"
      ELSE "vertical"
\* the answer of find_scroll_view for a node of class node_class that
\* contains one of scroll_classes
ScrollAnswer(node_class) ==
    IF Contains(node_class, cHorizontalScrollView) \/ Contains(node_class, cViewPager)
      THEN "horizontal"
      ELSE "vertical"

IsScrollClass(node_class) ==
    \E k \in 1..Len(ScrollClasses) : Contains(node_class, ScrollClasses[k])

\* find_scroll_view(node): the node's own answer, else the answer of the
\* first child that has one; "None" when there is none
RECURSIVE FindScrollView(_, _)
FindScrollView(tree, i) ==
    IF IsScrollClass(tree.class[i]) THEN ScrollAnswer(tree.class[i])
    ELSE LET answering == { j \in ChildrenOf(tree, i) :
                              FindScrollView(tree, j) # "None" }
         IN  IF answering = {} THEN "None"
             ELSE FindScrollView(tree,
                      CHOOSE j \in answering : \A k \in answering : j <= k)

\* _analyze_scroll_direction(elements)
AnalyzeScrollDirection(tree) ==
    IF Len(tree.parent) = 0 THEN "vertical"
    ELSE IF FindScrollView(tree, 1) # "None"
      THEN FindScrollView(tree, 1)
      ELSE "vertical"

\* _xml_to_json has returned the tree, not analysed yet
ParsedTree(tree) == [op |-> "elements", arg |-> tree]

\* get_ui_hierarchy calls _analyze_scroll_direction on the parsed tree
AnalyzeScrollDirectionCall ==
    /\ pf_call.op = "elements"
    /\ PfCall("_analyze_scroll_direction", pf_call.arg,
              AnalyzeScrollDirection(pf_call.arg))

(***************************************************************************)
(* The loop of main                                                        *)
(***************************************************************************)

MaxTestCases == 3

MainInit ==
    /\ main_pc = "idle"
    /\ main_n = 0
    /\ main_i = 0
    /\ main_script = "none"
    /\ results = <<>>

\* what a call main makes outside its try block can do: return a true
\* value, return a false one, or raise
StageOutcomes == {"ok", "falsy", "raise"}

\* what exec(operation_script, ...) and execute_test_step(device) come to
ScriptOutcomes == {"True", "False", "raise"}

\* main() with n test cases loaded: `if not test_cases: return`, else the
\* loop starts on the first one with results = []
Main(n) ==
    /\ main_pc = "idle"
    /\ main_n' = n
    /\ main_script' = "none"
    /\ results' = <<>>
    /\ IF n = 0
         THEN main_pc' = "no_cases" /\ main_i' = 0
         ELSE main_pc' = "capture" /\ main_i' = 1
    /\ UNCHANGED nonMainVars

\* test_case["test_result"] = test_result; results.append(test_case); the
\* loop goes on with the next test case, or is over
AppendResult(test_result_, script) ==
    /\ results' = Append(results, [test_case |-> main_i,
                                   test_result |-> test_result_,
                                   script |-> script])
    /\ main_script' = "none"
    /\ IF main_i < main_n
         THEN main_i' = main_i + 1 /\ main_pc' = "capture"
         ELSE main_i' = main_i /\ main_pc' = "end"

\* an exception raised outside the try block leaves the loop and main
Propagate ==
    /\ main_pc' = "aborted"
    /\ UNCHANGED <<main_i, main_script, results>>

\* a stage before the try block: `if not <call>: fail, append, continue`
StageBeforeTry(stage, next, out) ==
    /\ main_pc = stage
    /\ CASE out = "ok" -> main_pc' = next /\ UNCHANGED <<main_i, main_script, results>>
         [] out = "falsy" -> AppendResult("fail", main_script)
         [] out = "raise" -> Propagate
    /\ UNCHANGED main_n
    /\ UNCHANGED nonMainVars

\* element_parser.extract_elements(xml_path, app_info_path)
Capture(out) == StageBeforeTry("capture", "load", out)

\* extract_simplified_elements, load_element_xml, load_app_info and
\* `if not xml_content or not app_info`
LoadCapture(out) == StageBeforeTry("load", "plan", out)

\* ai_client.analyze_test_step(...) and `if not actions`
Plan(out) == StageBeforeTry("plan", "generate", out)

\* ai_client.generate_operation_script(...) and `if not operation_script`
Generate(out) == StageBeforeTry("generate", "execute", out)

\* inside the try block: exec of the script and the call of
\* execute_test_step; `if not result` records "fail", an exception is caught
\* by `except Exception` and records "fail"
Execute(res) ==
    /\ main_pc = "execute"
    /\ IF res = "True"
         THEN /\ main_pc' = "recapture"
              /\ main_script' = res
              /\ UNCHANGED <<main_i, results>>
         ELSE AppendResult("fail", res)
    /\ UNCHANGED main_n
    /\ UNCHANGED nonMainVars

\* inside the try block: the second extract_elements
CaptureAgain(out) ==
    /\ main_pc = "recapture"
    /\ IF out = "ok"
         THEN main_pc' = "validate" /\ UNCHANGED <<main_i, main_script, results>>
         ELSE AppendResult("fail", main_script)
    /\ UNCHANGED main_n
    /\ UNCHANGED nonMainVars

\* inside the try block: the reload and ai_client.validate_test_result(...);
\* test_case["test_result"] = "pass" if validation_result else "fail"
Validate(out) ==
    /\ main_pc = "validate"
    /\ AppendResult(IF out = "ok" THEN "pass" ELSE "fail", main_script)
    /\ UNCHANGED main_n
    /\ UNCHANGED nonMainVars

MainNext ==
    \/ \E n \in 0..MaxTestCases : Main(n)
    \/ \E out \in StageOutcomes : Capture(out)
    \/ \E out \in StageOutcomes : LoadCapture(out)
    \/ \E out \in StageOutcomes : Plan(out)
    \/ \E out \in StageOutcomes : Generate(out)
    \/ \E res \in ScriptOutcomes : Execute(res)
    \/ \E out \in StageOutcomes : CaptureAgain(out)
    \/ \E out \in StageOutcomes : Validate(out)

(***************************************************************************)
(* Specifications                                                          *)
(***************************************************************************)

\* the planner client alone
InitAI ==
    /\ AiInit /\ DictInit({<<>>}) /\ DevInit({"ui"}, {PlainChain})
    /\ UiInit /\ WInit({FALSE}) /\ HInit /\ ScInit /\ PfInit /\ MainInit

SpecAI == InitAI /\ [][AiNext]_vars

\* the element dictionary and its resolver
InitResolver ==
    /\ AiInit /\ DictInit(DocsOver(ResolverNodes)) /\ DevInit({"utils"}, {PlainChain})
    /\ UiInit /\ WInit({FALSE}) /\ HInit /\ ScInit /\ PfInit /\ MainInit

SpecResolver == InitResolver /\ [][ResolverNext]_vars

\* find_element on the dictionaries of the index nodes
InitFind ==
    /\ AiInit /\ DictInit(DocsOver(IndexNodes)) /\ DevInit({"utils"}, {PlainChain})
    /\ UiInit /\ WInit({FALSE}) /\ HInit /\ ScInit /\ PfInit /\ MainInit

SpecFind == InitFind /\ [][ResolverNext]_vars

\* the dictionary loaded again and again while the screen is captured anew
InitIndex ==
    /\ AiInit /\ DictInit({<<>>}) /\ DevInit({"utils"}, {PlainChain})
    /\ UiInit /\ WInit({FALSE}) /\ HInit /\ ScInit /\ PfInit /\ MainInit

IndexNext ==
    \/ \E doc \in DocsOver(IndexNodes) : Recapture(doc)
    \/ \E info \in AppInfos : \E ids \in ElementIds(Len(xml_file)) :
          LoadFromFiles(info, ids)

SpecIndex == InitIndex /\ [][IndexNext]_vars

\* the dictionary loaded again and again, some of the loads failing
LoadNext ==
    \/ \E doc \in DocsOver(IndexNodes) : Recapture(doc)
    \/ \E info \in CaptureInfos : \E ids \in ElementIds(Len(xml_file)) :
          LoadFromFiles(info, ids)
    \/ \E failure \in LoadFailures : \E info \in CaptureInfos :
          LoadFromFilesFails(failure, info)

SpecLoad == InitIndex /\ [][LoadNext]_vars

\* the two parsers of the bounds attribute
InitBounds ==
    /\ AiInit /\ DictInit({<<>>}) /\ DevInit({"utils"}, {PlainChain})
    /\ UiInit /\ WInit({FALSE}) /\ HInit /\ ScInit /\ PfInit /\ MainInit

SpecBounds == InitBounds /\ [][BoundsNext]_vars

\* the paths the two parsers give the children of a node
SpecPaths == InitBounds /\ [][PathsNext]_vars

\* the hierarchy parser on dumps that parse, that parse once repaired, and
\* that do not
SpecXml == InitBounds /\ [][XmlNext]_vars

\* the scroll direction recommended for every parsed tree
InitScroll ==
    /\ AiInit /\ DictInit({<<>>}) /\ DevInit({"ui"}, {PlainChain})
    /\ UiInit /\ WInit({FALSE}) /\ HInit /\ ScInit /\ MainInit
    /\ \E n \in 0..MaxTreeNodes :
       \E p \in ParentMaps(n) :
       \E c \in [1..n -> TreeClasses] :
          pf_call = ParsedTree([parent |-> p, class |-> c])
    /\ pf_result = <<>>

SpecScroll == InitScroll /\ [][AnalyzeScrollDirectionCall]_vars

\* the loop of main over the loaded test cases
SpecMain == InitBounds /\ [][MainNext]_vars

\* the ui_automator handler on a live device
InitUi ==
    /\ AiInit /\ DictInit({<<>>}) /\ DevInit({"ui"}, ScrollChains)
    /\ UiInit /\ WInit({FALSE}) /\ HInit /\ ScInit /\ PfInit /\ MainInit

SpecUi == InitUi /\ [][UiNext]_vars

\* either handler executing single actions: the ui_automator handler over
\* every hierarchy, or the utils handler over a dictionary
InitHandlers ==
    /\ AiInit /\ UiInit /\ WInit({FALSE}) /\ HInit /\ ScInit /\ PfInit /\ MainInit
    /\ \/ DictInit({<<>>}) /\ DevInit({"ui"}, Chains)
       \/ DictInit(HandlerDocs) /\ DevInit({"utils"}, {PlainChain})

HandlersNext ==
    \/ UiClickNext
    \/ UtilsNext
    \/ \E info \in AppInfos : \E ids \in ElementIds(Len(xml_file)) :
          LoadFromFiles(info, ids)

SpecHandlers == InitHandlers /\ [][HandlersNext]_vars

\* waiting for an element: wait_element of the ui_automator handler on a
\* screen that changes, or the utils handler over a dictionary
InitWait ==
    /\ AiInit /\ UiInit /\ WInit({FALSE}) /\ HInit /\ ScInit /\ PfInit /\ MainInit
    /\ \/ DictInit({<<>>}) /\ DevInit({"ui"}, {PlainChain})
       \/ DictInit(HandlerDocs) /\ DevInit({"utils"}, {PlainChain})

WaitRunNext ==
    \/ WaitNext
    \/ UtilsNext
    \/ \E info \in AppInfos : \E ids \in ElementIds(Len(xml_file)) :
          LoadFromFiles(info, ids)

SpecWait == InitWait /\ [][WaitRunNext]_vars

\* entering text: input_text_to_field of the ui_automator handler on a
\* target that is or is not an input field, or the utils handler over a
\* dictionary
InitInput ==
    /\ AiInit /\ UiInit /\ HInit /\ ScInit /\ PfInit /\ MainInit
    /\ \/ DictInit({<<>>}) /\ DevInit({"ui"}, ScrollChains) /\ WInit(BOOLEAN)
       \/ DictInit(HandlerDocs) /\ DevInit({"utils"}, {PlainChain}) /\ WInit({FALSE})

InputNext ==
    \/ UiInputNext
    \/ UtilsNext
    \/ \E info \in AppInfos : \E ids \in ElementIds(Len(xml_file)) :
          LoadFromFiles(info, ids)

SpecInput == InitInput /\ [][InputNext]_vars

\* the generated script run by the orchestrator, and the utils handler over
\* a dictionary as constructed
InitScript ==
    /\ AiInit /\ DictInit({<<>>}) /\ DevInit({"utils", "script"}, {PlainChain})
    /\ UiInit /\ WInit({FALSE}) /\ HInit /\ ScInit /\ PfInit /\ MainInit

ScriptRunNext == ScriptNext \/ UtilsNext

SpecScript == InitScript /\ [][ScriptRunNext]_vars

(***************************************************************************)
(* Claims about AIClient.create_chat_completion                            *)
(***************************************************************************)

AllRateLimited ==
    \A i \in 1..Len(ai_outcomes) :
        ai_outcomes[i].kind = "http" /\ ai_outcomes[i].status = 429

\* C1: with max_retries = 3 and every request answered 429, the first request
\* is followed by exactly three retries, the sleeps before them are 1, 2 and 4
\* seconds in that order, and the fourth 429 returns None with no further
\* sleep and no further request.
C1_BackoffOnRateLimit ==
    (ai_pc # "idle" /\ ai_rc0 = 0 /\ AllRateLimited) =>
        /\ Len(ai_outcomes) <= 4
        /\ ai_waits = SubSeq(<<1, 2, 4>>, 1, Min(Len(ai_outcomes), 3))
        /\ (Len(ai_outcomes) = 4 => ai_pc = "done" /\ ai_result = "None")
        /\ (Len(ai_outcomes) < 4 => ai_pc = "request" /\ ai_result = "pending")

C1_Witness ==
    /\ ai_pc = "done"
    /\ ai_rc0 = 0
    /\ Len(ai_outcomes) = 4
    /\ AllRateLimited
    /\ ai_waits = <<1, 2, 4>>

\* an HTTP answer whose status is neither 200 nor 429
IsHttpError(o) == o.kind = "http" /\ o.status \notin {200, 429}

\* a failure raised as an exception other than a timeout
IsOtherException(o) ==
    \/ o.kind = "exception"
    \/ (o.kind = "http" /\ o.body = "malformed")

\* the invocation that sent request i ended the whole call with None and
\* slept no more
EndsCallAt(i) ==
    /\ i = Len(ai_outcomes)
    /\ ai_pc = "done"
    /\ ai_result = "None"
    /\ Len(ai_waits) = i - 1

Last(S) == CHOOSE i \in S : \A j \in S : j <= i

\* the smallest member of a non-empty set of positions
First(S) == CHOOSE i \in S : \A j \in S : i <= j

\* the nodes of the loaded document that carry a given attribute value
WithText(t) == { i \in 1..Len(capture) : t # <<>> /\ capture[i].text = t }

WithDesc(t) == { i \in 1..Len(capture) : t # <<>> /\ capture[i].desc = t }

\* the nodes whose resource id, or its part after the last '/', is k
WithRid(k) ==
    { i \in 1..Len(capture) :
        /\ capture[i].rid # <<>>
        /\ \/ capture[i].rid = k
           \/ (HasSlash(capture[i].rid) /\ LastSegment(capture[i].rid) = k) }

\* the element_info _parse_elements built for the node at position p
RecordOf(p) == ElementInfo(uuids[p], capture[p])

\* find_element(query, 'auto') has been called on a loaded dictionary and
\* returned (on an unloaded one the index lookup raises KeyError)
AutoCalled == element_index # <<>> /\ fe_call.by = "auto" /\ ~fe_call.raised

\* C6 as stated: find_element(query, 'auto') looks the query up exactly in by_text,
\* then by_resource_id, then by_content_desc and returns the first hit (the
\* last node carrying that value); with one node of text "WLAN" and another
\* of resource id ".../WLAN" the query "WLAN" returns the text match.
C6_ExactOrder ==
    AutoCalled =>
        LET q == fe_call.query
        IN  /\ WithText(q) # {} => fe_result = RecordOf(Last(WithText(q)))
            /\ (WithText(q) = {} /\ WithRid(q) # {}) =>
                   fe_result = RecordOf(Last(WithRid(q)))
            /\ (WithText(q) = {} /\ WithRid(q) = {} /\ WithDesc(q) # {}) =>
                   fe_result = RecordOf(Last(WithDesc(q)))
            /\ (q = sWLAN /\ WithText(sWLAN) # {}
                  /\ \E j \in 1..Len(capture) : capture[j].rid = sRidWLAN) =>
                   fe_result.text = sWLAN

\* some exact lookup of the query hits
ExactHit(q) == WithText(q) # {} \/ WithRid(q) # {} \/ WithDesc(q) # {}

\* the nodes whose attribute contains the query, letter case ignored
TextContaining(q) ==
    { i \in 1..Len(capture) :
        capture[i].text # <<>> /\ ContainsIgnoreCase(capture[i].text, q) }

RidContaining(q) ==
    { i \in 1..Len(capture) :
        capture[i].rid # <<>> /\ ContainsIgnoreCase(capture[i].rid, q) }

DescContaining(q) ==
    { i \in 1..Len(capture) :
        capture[i].desc # <<>> /\ ContainsIgnoreCase(capture[i].desc, q) }

\* C7 as stated: in find_element(query, 'auto') the fuzzy stage runs only when the three
\* exact lookups miss; it returns the element under the first key containing
\* the query case-insensitively, every by_text key scanned before any
\* by_resource_id key and those before any by_content_desc key; when no key
\* contains the query the result is None.
C7_FuzzyOrder ==
    AutoCalled =>
        LET q == fe_call.query
            T == TextContaining(q)
            R == RidContaining(q)
            D == DescContaining(q)
        IN  /\ ExactHit(q) =>
                 \/ fe_result.text = q
                 \/ \E p \in WithRid(q) : fe_result = RecordOf(p)
                 \/ fe_result.desc = q
            /\ ~ExactHit(q) =>
                 IF T # {}
                   THEN fe_result = RecordOf(Last(WithText(capture[First(T)].text)))
                 ELSE IF R # {}
                   THEN fe_result = RecordOf(Last(WithRid(capture[First(R)].rid)))
                 ELSE IF D # {}
                   THEN fe_result = RecordOf(Last(WithDesc(capture[First(D)].desc)))
                 ELSE fe_result = NoElement

(***************************************************************************)
(* Claims about the ui_automator handler and the live-device lookup        *)
(***************************************************************************)

\* the positions of the device log holding a call of the given kind
CallsOf(op) == { i \in 1..Len(dev_log) : dev_log[i].op = op }

\* the lookups of the running operation that matched the target
Hits == { i \in CallsOf("find") : dev_log[i].node # 0 }

\* a device call without its outcome
Shape(e) == <<e.op, e.pts, e.arg>>

\* the sequence s repeated n times
RECURSIVE Repeat(_, _)
Repeat(s, n) == IF n = 0 THEN <<>> ELSE s \o Repeat(s, n - 1)

\* one re-resolution of an absent target: the three lookups of click_by_*
ResolveAbsent(by) ==
    IF by = "none" THEN <<>> ELSE Repeat(<<<<"find", <<>>, by>>>>, 3)

\* on the 1080 x 1920 screen: the forward swipe of each scroll direction
ForwardSwipe(dir) ==
    IF dir = "horizontal"
      THEN <<"swipe", <<810, 960, 270, 960>>, "">>
      ELSE <<"swipe", <<540, 1280, 540, 640>>, "">>

\* the same stroke from its end to its start
Opposite(swipe) ==
    <<swipe[1], <<swipe[2][3], swipe[2][4], swipe[2][1], swipe[2][2]>>, swipe[3]>>

\* C3: when no lookup of a find_and_click_element(scroll_attempts = N) call
\* finds the target, the call issues no click, and by the time it returns it
\* has made, after the initial capture and resolution, exactly N forward
\* scrolls each followed by a re-resolution, then exactly min(N, 2) scrolls in
\* the opposite direction, and it returns False.
C3_AbsentTargetScrolls ==
    (ui_op = "find_and_click_element" /\ Hits = {}) =>
        /\ CallsOf("click") = {}
        /\ ui_pc = "done" =>
             /\ ui_result = "False"
             /\ [i \in 1..Len(dev_log) |-> Shape(dev_log[i])] =
                  <<<<"dump_hierarchy", <<>>, "">>>>
                  \o ResolveAbsent(ui_by)
                  \o Repeat(<<ForwardSwipe(ui_dir)>> \o ResolveAbsent(ui_by), ui_N)
                  \o Repeat(<<Opposite(ForwardSwipe(ui_dir))>>, Min(ui_N, 2))

C3_Witness ==
    /\ ui_op = "find_and_click_element"
    /\ ui_pc = "done"
    /\ Hits = {}
    /\ ui_by = "text"
    /\ ui_N = DefaultScrollAttempts
    /\ ui_dir = "horizontal"
    /\ Cardinality(CallsOf("swipe")) = 5
    /\ Cardinality(CallsOf("find")) = 12
    /\ ui_result = "False"

\* the distances at which node m has a clickable proper ancestor
ClickableAncestorDistances(m) == { d \in 1..(m - 1) : dev_clickable[m - d] }

\* the smallest member of a non-empty set of numbers
Nearest(S) == CHOOSE d \in S : \A e \in S : d <= e

UiClicking == driver = "ui" /\ ui_op \in {"click_by_text", "click_by_id"}

\* the utils handler has executed a CLICK action
UtilsClicking ==
    driver = "utils" /\ h_result # "none" /\ UpperStr(h_call.action) = "CLICK"

\* the click is at the centre of node k of the live hierarchy
AtCentreOfNode(e, k) ==
    e.pts = << (DevBounds(k).left + DevBounds(k).right) \div 2,
               (DevBounds(k).top + DevBounds(k).bottom) \div 2 >>

\* the click is at the centre of the bounds of node k of the loaded document
AtCentreOfElement(e, k) ==
    /\ k \in 1..Len(capture)
    /\ Len(capture[k].bounds) >= 4
    /\ e.pts = << (capture[k].bounds[1] + capture[k].bounds[3]) \div 2,
                  (capture[k].bounds[2] + capture[k].bounds[4]) \div 2 >>

UiHomeDone == driver = "ui" /\ ui_op = "go_home" /\ ui_pc = "done"

UtilsHomeDone ==
    driver = "utils" /\ h_result # "none" /\ UpperStr(h_call.action) = "HOME"

\* what the HOME operation reported
HomeReported == IF UiHomeDone THEN ui_result ELSE h_result

RECURSIVE CallsUpTo(_, _)
CallsUpTo(done, k) ==
    IF k = 0 THEN <<>> ELSE CallsUpTo(done, k - 1) \o done[k].prims

\* the script has returned
Returned == sc_pc \in {"returned", "recorded"}

\* C4: the script executes the statements of the actions in list order; once
\* an action returns False no device call of a later action is made and
\* execute_test_step returns False; it returns True only if every action of
\* the list returned True; the orchestrator records a result that is not
\* True as "fail".
C4_InOrderFailFast ==
    driver = "script" =>
        /\ Len(sc_done) <= Len(sc_script)
        /\ \A k \in 1..Len(sc_done) :
             /\ sc_done[k].idx = k
             /\ \E fault \in FaultsOf(StatementOutcome(sc_script[k])) :
                  WithFault(StatementOutcome(sc_script[k]), fault) =
                    [result |-> sc_done[k].result, prims |-> sc_done[k].prims]
             /\ sc_done[k].result = "False" =>
                  k = Len(sc_done) /\ Returned /\ sc_result = "False"
             /\ k < Len(sc_done) => sc_done[k].result = "True"
        /\ dev_log = CallsUpTo(sc_done, Len(sc_done))
        /\ (Returned /\ sc_result = "True") =>
             /\ Len(sc_done) = Len(sc_actions)
             /\ \A k \in 1..Len(sc_done) : sc_done[k].result = "True"
        /\ (sc_pc = "recorded" /\ sc_result # "True") => test_result = "fail"

C4_Witness ==
    /\ driver = "script"
    /\ sc_pc = "recorded"
    /\ Len(sc_actions) = 2
    /\ sc_actions[1].action = "SWIPE"
    /\ sc_actions[2].action = "BACK"
    /\ Len(sc_done) = 1
    /\ sc_done[1].result = "False"
    /\ Len(dev_log) = 1
    /\ sc_result = "False"
    /\ test_result = "fail"

\* the action's type is none of the eight
Unrecognised(action) ==
    UpperStr(Get(action, "action", "UNKNOWN")) \notin ActionTypes

UiWaitDone == driver = "ui" /\ w_pc = "done"

\* the utils handler has executed a WAIT action
UtilsWaitDone ==
    driver = "utils" /\ h_result # "none" /\ UpperStr(h_call.action) = "WAIT"

\* C11: WAIT polls the device until success or timeout: when the target came
\* up on the screen before the timeout elapsed and stayed, the wait returned
\* True; when it never came up the wait returned False, the timeout having
\* elapsed, and did not raise; for wait_element of ui_automator and for
\* wait_for_element of utils.
C11_WaitPollsDevice ==
    /\ UiWaitDone =>
         /\ w_in_time => w_result = "True"
         /\ ~dev_target => (w_result = "False" /\ w_now >= w_timeout)
    /\ UtilsWaitDone =>
         /\ (dev_target /\ Get(h_call, "timeout", 10) > 0) => h_result = "True"
         /\ ~dev_target => h_result = "False"

(***************************************************************************)
(* Claims about the branches of find_and_perform_action                    *)
(***************************************************************************)

\* the utils handler has executed an action of the given type
UtilsDid(type) ==
    driver = "utils" /\ h_result # "none" /\ UpperStr(h_call.action) = type

\* C12: no branch of find_and_perform_action raises: whatever the action type,
\* the target and the behaviour of the device calls, one that raises included,
\* the call returns a boolean to its caller.
C12_NoBranchRaises ==
    (driver = "utils" /\ h_result # "none") => h_result \in {"True", "False"}

\* what find_element(target) gives the utils handler on the dictionary as it is
Resolved(target) ==
    IF FindRaises(element_index) THEN NoElement
    ELSE FindElementIn(elements, element_index, target, "auto")

\* input_text_to_field of the ui_automator handler has returned
UiInputDone == driver = "ui" /\ ui_op = "input_text_to_field" /\ ui_pc = "done"

\* the device calls that act on the screen: everything but the lookups
Primitives == { i \in 1..Len(dev_log) : dev_log[i].op # "find" }

\* C13: INPUT requires an editable target: when the target is not found, or
\* resolves to an element whose editable flag is false, the action returns
\* False and issues no device primitive; text is sent to the device only
\* after resolving an element with editable = true; for input_text of utils
\* and for input_text_to_field of ui_automator.
C13_InputRequiresEditable ==
    /\ UtilsDid("INPUT") =>
         /\ ~Resolved(h_call.target).editable =>
               (h_result = "False" /\ Primitives = {})
         /\ CallsOf("send_keys") # {} => Resolved(h_call.target).editable
    /\ UiInputDone =>
         /\ (ui_found = NoUiElement \/ ~dev_editable) =>
               (ui_result = "False" /\ Primitives = {})
         /\ CallsOf("send_keys") # {} => (ui_found # NoUiElement /\ dev_editable)

\* the keys of app_mapping
AppNames == {sSheZhi, sDuanXin, sDianHua, sXiangJi, sTuKu, sLiuLanQi}

\* find_and_perform_action has just been executed on the dictionary
UtilsStep ==
    /\ driver = "utils"
    /\ <<h_call, h_result, dev_log>>' # <<h_call, h_result, dev_log>>
    /\ <<elements, element_index>>' = <<elements, element_index>>

\* the outcomes the same call has with action type `type`, one per device
\* call that may raise
OutcomesAs(type) ==
    LET out == FindAndPerformActionOn(elements', element_index',
                                      [h_call' EXCEPT !.action = type])
    IN  { WithFault(out, fault) : fault \in FaultsOf(out) }

\* C14: OPEN with a target that is a key of the app-name mapping calls
\* app_start exactly once and neither resolves an element nor clicks; OPEN
\* with any other target has the device calls and the result that CLICK with
\* that target has, and CLICK those of OPEN.
C14_OpenLaunchesOrClicks ==
    [][ UtilsStep =>
          LET type == UpperStr(h_call'.action)
              seen == [result |-> h_result', prims |-> dev_log']
          IN  /\ (type = "OPEN" /\ h_call'.target \in AppNames) =>
                   /\ Len(dev_log') = 1
                   /\ dev_log'[1].op = "app_start"
                   /\ h_result' = IF dev_log'[1].ok THEN "True" ELSE "False"
              /\ (type = "OPEN" /\ h_call'.target \notin AppNames) =>
                   seen \in OutcomesAs("CLICK")
              /\ (type = "CLICK" /\ h_call'.target \notin AppNames) =>
                   seen \in OutcomesAs("OPEN") ]_vars

C14_Witness ==
    /\ UtilsDid("OPEN")
    /\ h_call.target = sWLAN
    /\ h_result = "True"
    /\ Len(dev_log) = 1
    /\ dev_log[1].op = "click"
    /\ dev_log[1].pts = <<10, 5>>

\* the device log is one press of the given key and nothing else
OnlyPress(key) ==
    /\ Len(dev_log) = 1
    /\ dev_log[1].op = "press"
    /\ dev_log[1].arg = key

\* go_back() of the ui_automator handler has returned
UiBackDone == driver = "ui" /\ ui_op = "go_back" /\ ui_pc = "done"

\* C15: BACK presses the back key exactly once, captures and verifies nothing,
\* and always reports True, whatever the screen and the key press do; for
\* back() of utils and go_back() of ui_automator.
C15_BackAlwaysTrue ==
    /\ UtilsDid("BACK") => (OnlyPress("back") /\ h_result = "True")
    /\ UiBackDone => (OnlyPress("back") /\ ui_result = "True")

\* the device swipes among the calls of the last handler call
SwipesIssued == SelectSeq(dev_log, LAMBDA c : c.op = "swipe")

\* the direction find_and_perform_action passes to swipe_screen
SwipeDirection == LowerStr(Get(h_call, "direction", "up"))

\* both end points of the swipe lie in [0, ScreenW] x [0, ScreenH]
InsideScreen(pts) ==
    /\ pts[1] \in 0..ScreenW /\ pts[3] \in 0..ScreenW
    /\ pts[2] \in 0..ScreenH /\ pts[4] \in 0..ScreenH

\* the segment of the opposite direction, start and end exchanged
Exchanged(pts) == <<pts[3], pts[4], pts[1], pts[2]>>

\* the direction whose swipe runs the other way
OppositeDirection(d) ==
    CASE d = "up"    -> "down"
      [] d = "down"  -> "up"
      [] d = "left"  -> "right"
      [] d = "right" -> "left"

\* C16: SWIPE resolves no element and is centred: for up and down exactly one
\* swipe is issued with both points at x = width div 2, for left and right
\* exactly one with both points at y = height div 2, the points lie inside
\* the screen, up/down and left/right are the same segment exchanged, and the
\* action returns True; for any other direction no swipe is issued and the
\* action returns False.
C16_SwipeCentred ==
    UtilsDid("SWIPE") =>
        LET d == SwipeDirection
            pts == SwipesIssued[1].pts
        IN  IF d \in {"up", "down", "left", "right"}
              THEN /\ Len(SwipesIssued) = 1
                   /\ \A i \in 1..Len(dev_log) :
                         dev_log[i].op \in {"window_size", "swipe"}
                   /\ d \in {"up", "down"} =>
                         pts[1] = ScreenW \div 2 /\ pts[3] = ScreenW \div 2
                   /\ d \in {"left", "right"} =>
                         pts[2] = ScreenH \div 2 /\ pts[4] = ScreenH \div 2
                   /\ InsideScreen(pts)
                   /\ pts = Exchanged(SwipeScreen(OppositeDirection(d)).prims[2].pts)
                   /\ h_result = "True"
              ELSE /\ Len(SwipesIssued) = 0
                   /\ h_result = "False"

\* a find_element call returns or raises in this step
FindStep ==
    /\ fe_call'.by # "none"
    /\ <<fe_call, fe_result>>' # <<fe_call, fe_result>>

\* C17: find_element is pure over its snapshot: for every query and every
\* value of `by` a call leaves elements, interactive_elements, element_index
\* and app_info as they were and makes no device call, and the same call on
\* the dictionary it leaves behind returns the element it returned.
C17_FindElementPure ==
    [][ FindStep =>
          /\ UNCHANGED <<elements, interactive_elements, element_index, app_info>>
          /\ UNCHANGED <<xml_file, capture, uuids>>
          /\ UNCHANGED devVars
          /\ fe_call'.raised = FindRaises(element_index')
          /\ ~fe_call'.raised =>
                fe_result' = FindElementIn(elements', element_index',
                                           fe_call'.query, fe_call'.by) ]_vars

\* a lookup has returned the label of a two-node dictionary
C17_Witness ==
    /\ fe_call = [query |-> sLAN, by |-> "auto", raised |-> FALSE]
    /\ Len(capture) = 2
    /\ uuids = <<1, 2>>
    /\ fe_result = RecordOf(2)
    /\ interactive_elements = {1}

\* the keys and the values of a dict
Keys(d) == { d[i][1] : i \in 1..Len(d) }

Values(d) == { d[i][2] : i \in 1..Len(d) }

\* the positions of the loaded capture whose node drew id e
NodesOf(e) == { p \in 1..Len(capture) : uuids[p] = e }

\* every id stored in one of the four mappings
IndexedIds ==
    Values(element_index.by_text) \cup Values(element_index.by_resource_id)
      \cup Values(element_index.by_content_desc)
      \cup UNION { { l[i] : i \in 1..Len(l) } : l \in Values(element_index.by_class) }

\* load_from_files has succeeded at least once
Loaded == element_index # <<>>

\* C18: the index is rebuilt from scratch on every capture: after any
\* sequence of successful load_from_files calls, elements,
\* interactive_elements and the four mappings hold only nodes of the capture
\* loaded last, and every id stored in a mapping or in interactive_elements
\* is a key of elements.
C18_IndexRebuilt ==
    Loaded =>
        /\ \A e \in DOMAIN elements :
              \E p \in NodesOf(e) : elements[e] = RecordOf(p)
        /\ \A e \in interactive_elements :
              \E p \in NodesOf(e) : IsInteractive(capture[p])
        /\ \A k \in Keys(element_index.by_text) :
              \E p \in NodesOf(DictGet(element_index.by_text, k)) :
                  capture[p].text = k
        /\ \A k \in Keys(element_index.by_resource_id) :
              \E p \in NodesOf(DictGet(element_index.by_resource_id, k)) :
                  k \in {capture[p].rid, LastSegment(capture[p].rid)}
        /\ \A k \in Keys(element_index.by_content_desc) :
              \E p \in NodesOf(DictGet(element_index.by_content_desc, k)) :
                  capture[p].desc = k
        /\ \A k \in Keys(element_index.by_class) :
              \A e \in { DictGetList(element_index.by_class, k)[i] :
                           i \in 1..Len(DictGetList(element_index.by_class, k)) } :
                  \E p \in NodesOf(e) : capture[p].cls = k
        /\ interactive_elements \subseteq DOMAIN elements
        /\ IndexedIds \subseteq DOMAIN elements

\* a load has replaced an earlier capture by one label, which leaves one
\* record, no interactive element and no content description
C18_Witness ==
    /\ reloaded
    /\ Len(capture) = 1
    /\ ~IsInteractive(capture[1])
    /\ DOMAIN elements = {1}
    /\ interactive_elements = {}
    /\ element_index.by_content_desc = <<>>
    /\ Keys(element_index.by_text) = {sLAN}

\* the last of a non-empty set of positions
LastOf(ps) == CHOOSE p \in ps : \A q \in ps : q <= p

\* the positions of the loaded capture whose node has text, full resource
\* id, content description, class k
TextIs(k) == { p \in 1..Len(capture) : capture[p].text = k }

RidIs(k) == { p \in 1..Len(capture) : capture[p].rid = k }

DescIs(k) == { p \in 1..Len(capture) : capture[p].desc = k }

ClassIs(k) == { p \in 1..Len(capture) : capture[p].cls = k }

\* the positions whose node is written under key k of by_resource_id: its
\* resource id is k, or has a '/' and k after the last one
RidWrites(k) ==
    { p \in 1..Len(capture) :
        \/ capture[p].rid = k
        \/ HasSlash(capture[p].rid) /\ LastSegment(capture[p].rid) = k }

\* the ids of the nodes at positions ps, in document order
RECURSIVE IdsAt(_, _)
IdsAt(ps, n) ==
    IF n = 0 THEN <<>>
    ELSE IF n \in ps THEN Append(IdsAt(ps, n - 1), uuids[n])
    ELSE IdsAt(ps, n - 1)

\* what C19 says of by_text, by_content_desc, by_class and elements: every
\* attribute value is a key, mapped to the id of the last node carrying it;
\* by_class lists the ids of the nodes of a class in document order; every
\* node's id is a key of elements
LastWriterElsewhere ==
    /\ Keys(element_index.by_text) =
          { capture[p].text : p \in 1..Len(capture) } \ {<<>>}
    /\ \A k \in Keys(element_index.by_text) :
          DictGet(element_index.by_text, k) = uuids[LastOf(TextIs(k))]
    /\ Keys(element_index.by_content_desc) =
          { capture[p].desc : p \in 1..Len(capture) } \ {<<>>}
    /\ \A k \in Keys(element_index.by_content_desc) :
          DictGet(element_index.by_content_desc, k) = uuids[LastOf(DescIs(k))]
    /\ Keys(element_index.by_class) =
          { capture[p].cls : p \in 1..Len(capture) } \ {<<>>}
    /\ \A k \in Keys(element_index.by_class) :
          DictGetList(element_index.by_class, k) = IdsAt(ClassIs(k), Len(capture))
    /\ \A p \in 1..Len(capture) : uuids[p] \in DOMAIN elements

C20_IdsNeverReused ==
    Loaded =>
        /\ \A p, q \in 1..Len(capture) : p # q => uuids[p] # uuids[q]
        /\ \A p \in 1..Len(capture) :
              uuids[p] \in DOMAIN elements /\ elements[uuids[p]] = RecordOf(p)
        /\ Cardinality(DOMAIN elements) = Len(capture)

\* the rectangle is the zero rectangle or well ordered and non-negative
WellOrdered(r) ==
    /\ r.left >= 0 /\ r.top >= 0
    /\ r.right >= r.left /\ r.bottom >= r.top

\* C21: every parsed node's bounds are non-negative with right >= left and
\* bottom >= top: for every value of the bounds attribute, one that does not
\* match [x1,y1][x2,y2], one with trailing garbage and one with crossed
\* coordinates included, _parse_bounds and the bounds parsing of
\* _parse_elements store a well-ordered rectangle or the zero rectangle.
C21_BoundsWellOrdered ==
    pf_call.op \in {"_parse_bounds", "coords"} => WellOrdered(pf_result)

\* the paths returned differ from sibling to sibling
PathsDistinct ==
    \A i, j \in 1..Len(pf_result) : i # j => pf_result[i] # pf_result[j]

\* C22: in every well-formed hierarchy document every node's path is unique
\* among its siblings, siblings with the same resource id, the same text or
\* no identifying attribute included, for the paths of _parse_elements and
\* for those of ElementParser._parse_node.
C22_SiblingPathsUnique ==
    pf_call.op \in {"dict_paths", "node_paths"} => PathsDistinct

\* the dump parses neither as given nor with its '&' escaped
Unparseable(doc) ==
    ~Parses(doc, 1, 0, 0) /\ ~Parses(EscapeAmpersands(doc), 1, 0, 0)

\* C23: the hierarchy parser makes at most one repair attempt and then
\* fails: _xml_to_json parses the dump at most twice, and when the second
\* parse fails too it reports a parse failure instead of returning an
\* element structure obtained some other way.
C23_OneRepairThenFail ==
    pf_call.op = "_xml_to_json" =>
        /\ pf_result.parses <= 2
        /\ Unparseable(pf_call.arg) =>
              pf_result.kind = "MalformedHierarchy" /\ pf_result.dumps = 0

\* the nodes of the analysed tree whose class contains a scroll class
ScrollContainers ==
    { i \in 1..Len(pf_call.arg.parent) : IsScrollClass(pf_call.arg.class[i]) }

\* the class of the first of them in pre-order
FirstContainerClass ==
    pf_call.arg.class[CHOOSE i \in ScrollContainers :
                          \A j \in ScrollContainers : i <= j]

PrimitiveCalls == SelectSeq(dev_log, LAMBDA c : c.op # "find")

\* the positions of the log at which the text was sent
Submissions == { i \in 1..Len(dev_log) : dev_log[i].op = "send_keys" }

\* the position of the lookup of the select-all entry in the log, 0 if none
SelectAllLookup ==
    IF \E i \in 1..Len(dev_log) : dev_log[i].op = "find" /\ dev_log[i].arg = sSelectAll
      THEN CHOOSE i \in 1..Len(dev_log) :
               dev_log[i].op = "find" /\ dev_log[i].arg = sSelectAll
      ELSE 0

\* the select-all entry was looked up and not clicked: the lookup raised, the
\* entry was absent, or the click on it raised
SelectAllMissed ==
    /\ SelectAllLookup # 0
    /\ \/ ~dev_log[SelectAllLookup].ok
       \/ dev_log[SelectAllLookup + 1].arg # sSelectAll
       \/ ~dev_log[SelectAllLookup + 1].ok

\* C25: on a successful INPUT the device calls come in the order focus
\* click, clear of the existing content, text submission, and the text is
\* submitted exactly once; in input_text_to_field a select-all entry that is
\* absent or fails does not prevent the delete key press and the text
\* submission after it.
C25_InputOrder ==
    /\ (UtilsDid("INPUT") /\ h_result = "True") =>
          /\ Len(dev_log) = 3
          /\ dev_log[1].op = "click" /\ dev_log[1].ok
          /\ dev_log[2].op = "clear_text" /\ dev_log[2].ok
          /\ dev_log[3] = PlainCall("send_keys", h_call.text)
    /\ (UiInputDone /\ ui_result = "True") =>
          LET prims == PrimitiveCalls
              n == Len(prims)
          IN  /\ n >= 4
              /\ prims[1].op = "click" /\ prims[1].ok
              /\ prims[1].pts = <<ui_found.bounds.center_x, ui_found.bounds.center_y>>
              /\ prims[2].op = "long_click" /\ prims[2].ok
              /\ prims[n - 1].op = "press" /\ prims[n - 1].arg = "delete"
              /\ prims[n].op = "send_keys" /\ prims[n].ok
              /\ prims[n].arg \in InputTexts
              /\ Cardinality(Submissions) = 1
    /\ (UiInputDone /\ SelectAllMissed) =>
          \E i \in (SelectAllLookup + 1)..(Len(dev_log) - 1) :
              /\ dev_log[i].op = "press" /\ dev_log[i].arg = "delete"
              /\ dev_log[i + 1].op = "send_keys"
              /\ dev_log[i + 1].arg \in InputTexts
              /\ ui_result = IF dev_log[i + 1].ok THEN "True" ELSE "False"

\* the lookup of the select-all entry raised, and the delete key and the
\* text followed
C25_Witness ==
    /\ UiInputDone
    /\ ui_result = "True"
    /\ SelectAllLookup # 0
    /\ ~dev_log[SelectAllLookup].ok
    /\ Len(dev_log) = SelectAllLookup + 2
    /\ dev_log[Len(dev_log)].op = "send_keys"

\* find_and_click_element is the running or the last operation
Searching == driver = "ui" /\ ui_op = "find_and_click_element"

\* the forward and the reverse scrolls of the operation, as positions of
\* the log
ForwardScrolls ==
    { i \in CallsOf("swipe") : Shape(dev_log[i]) = ForwardSwipe(ui_dir) }

ReverseScrolls ==
    { i \in CallsOf("swipe") : Shape(dev_log[i]) = Opposite(ForwardSwipe(ui_dir)) }

\* the clicks that raised
RaisedClicks == { i \in CallsOf("click") : ~dev_log[i].ok }

\* the call returned True with one click, issued right after the first
\* lookup that resolved the target, no forward scroll after that lookup and
\* no reverse scroll
ClickedAtFirstHit ==
    /\ ui_pc = "done"
    /\ ui_result = "True"
    /\ CallsOf("click") = {First(Hits) + 1}
    /\ dev_log[First(Hits) + 1].ok
    /\ AtCentreOfNode(dev_log[First(Hits) + 1], ui_found.node)
    /\ Len(dev_log) = First(Hits) + 1
    /\ \A i \in ForwardScrolls : i < First(Hits)
    /\ Cardinality(ForwardScrolls) = ui_i
    /\ ui_i <= ui_N
    /\ ReverseScrolls = {}

\* C26 as stated: when the target first becomes resolvable after the k-th
\* forward scroll, find_and_click_element returns True after exactly k
\* forward scrolls, issues exactly one click on the target, and performs no
\* reverse scroll; reverse scrolls happen only on the path that returns False.
C26_FoundAfterKScrolls ==
    Searching =>
        /\ (Hits # {} /\ ui_pc = "done") => ClickedAtFirstHit
        /\ ReverseScrolls # {} => ui_result # "True"

\* C26 amended: the same when the click issued after the first lookup that
\* resolves the target does not raise; a call that returns True has issued
\* exactly one click that went through, as its last device call, and no
\* reverse scroll; reverse scrolls are issued only by a call that returns
\* False.
C26_FoundAfterKScrolls_amended ==
    Searching =>
        /\ (Hits # {} /\ RaisedClicks = {}) => ClickedAtFirstHit
        /\ ui_result = "True" =>
              /\ Hits # {}
              /\ { i \in CallsOf("click") : dev_log[i].ok } = {Len(dev_log)}
              /\ ReverseScrolls = {}
              /\ Cardinality(ForwardScrolls) = ui_i
        /\ ReverseScrolls # {} =>
              /\ ui_result # "True"
              /\ ui_pc = "done" => ui_result = "False"

\* the target is resolved for the first time after the second of three
\* forward scrolls allowed, and clicked
C26_Witness ==
    /\ Searching
    /\ ui_result = "True"
    /\ ui_N = 3
    /\ ui_i = 2
    /\ Cardinality(ForwardScrolls) = 2
    /\ Cardinality(Hits) = 1
    /\ Cardinality(CallsOf("click")) = 1
    /\ Cardinality(CallsOf("find")) = 3 + 3 + 2

\* the clicks of the running operation that returned
ClicksGoneThrough == { i \in CallsOf("click") : dev_log[i].ok }

\* the most lookups the running operation may perform
LookupLimit ==
    IF ui_op = "find_and_click_element" THEN ui_retry * (1 + ui_N) ELSE ui_retry

\* C27: one call of find_and_click_element, click_by_text or click_by_id
\* issues at most one click that goes through, in whatever order the target
\* appears and disappears between the lookups; click_by_text and click_by_id
\* perform at most retry lookups each, and a find_and_click_element call at
\* most retry * (1 + scroll_attempts)
C27_OneClickBoundedLookups ==
    ui_op \in {"find_and_click_element", "click_by_text", "click_by_id"} =>
        /\ Cardinality(ClicksGoneThrough) <= 1
        /\ Cardinality(CallsOf("find")) <= LookupLimit
        /\ ui_op = "find_and_click_element" => ui_retry = DefaultRetry
        /\ \A i \in ClicksGoneThrough : i = Len(dev_log) /\ ui_result = "True"

\* a find_and_click_element call with three scroll attempts used all twelve
\* lookups: the target appeared once with a click that raised, disappeared,
\* and appeared again at the last lookup, where the only click went through
C27_Witness ==
    /\ ui_op = "find_and_click_element"
    /\ ui_N = 3
    /\ ui_result = "True"
    /\ Cardinality(CallsOf("find")) = LookupLimit
    /\ LookupLimit = 12
    /\ Cardinality(Hits) = 2
    /\ Cardinality(RaisedClicks) = 1
    /\ Cardinality(ClicksGoneThrough) = 1

(***************************************************************************)
(* Termination of AIClient.create_chat_completion                          *)
(***************************************************************************)

\* requests.post(url, ..., timeout=60) comes back: with an answer or by raising
AiRespond ==
    \/ RespondOk
    \/ RespondMalformed
    \/ \E s \in StatusCodes : RespondStatus(s)
    \/ RequestTimeout
    \/ RequestException

\* the planner client, every request of which comes back
SpecAIFair == SpecAI /\ WF_vars(AiRespond)

\* the call has sent its last request and returned
AiReturned == ai_pc = "done" /\ ai_result \in {"content", "None"}

\* the sleeps so far never get shorter
WaitsNonDecreasing ==
    \A i \in 1..Len(ai_waits) : \A j \in i..Len(ai_waits) : ai_waits[i] <= ai_waits[j]

\* what holds at every point of a call
AiBounded ==
    ai_pc # "idle" =>
        /\ Len(ai_outcomes) <= max_retries + 1
        /\ Len(ai_waits) = Len(ai_outcomes) - (IF ai_pc = "done" THEN 1 ELSE 0)
        /\ retry_count = ai_rc0 + Len(ai_waits)
        /\ \A i \in 1..Len(ai_waits) : ai_waits[i] <= 8
        /\ WaitsNonDecreasing
        /\ ai_pc = "done" => AiReturned
        /\ ai_result = "content" => ai_outcomes[Len(ai_outcomes)].body = "ok"

\* C28: create_chat_completion always terminates: whatever the server
\* outcomes (success, 429, other status, timeout, other exception) it sends at
\* most max_retries + 1 requests, retry_count goes up by exactly 1 per retry,
\* every backoff wait is at most 8 seconds, the waits never decrease, and the
\* call returns the response content or None
C28_AlwaysTerminates ==
    /\ []AiBounded
    /\ (ai_pc = "request") ~> AiReturned

\* a call that met a timeout, another exception and a 429 before its fourth
\* request was answered with a completion
C28_Witness ==
    /\ ai_pc = "done"
    /\ ai_result = "content"
    /\ ai_rc0 = 0
    /\ retry_count = 3
    /\ Len(ai_outcomes) = max_retries + 1
    /\ ai_outcomes[1].kind = "timeout"
    /\ ai_outcomes[2].kind = "exception"
    /\ ai_outcomes[3].status = 429
    /\ ai_waits = <<1, 2, 4>>

(***************************************************************************)
(* Claims about the loop of main                                           *)
(***************************************************************************)

\* main has run its loop to the end or has been left by an exception
MainOver == main_pc \in {"end", "aborted"}

\* the test cases whose step has begun and is over
StepsOver == IF main_pc = "end" THEN main_n ELSE main_i - 1

\* the results so far are those of the first test cases, in order, each
\* "pass" or "fail", and "pass" only after a script that returned True
ResultsInOrder ==
    \A k \in 1..Len(results) :
        /\ results[k].test_case = k
        /\ results[k].test_result \in {"pass", "fail"}
        /\ results[k].test_result = "pass" => results[k].script = "True"

\* C29: the loop of main records exactly one result per test case, in
\* test-case order: whichever stage of a step fails, that test case is
\* appended once with test_result "fail" and the loop goes on with the next
\* one; a test case is recorded "pass" only if its script returned a true
\* result; at the end len(results) equals len(test_cases) and every
\* test_result is "pass" or "fail"
C29_OneResultPerTestCase ==
    main_pc \notin {"idle", "no_cases"} =>
        /\ ResultsInOrder
        /\ main_pc # "aborted" => Len(results) = StepsOver
        /\ MainOver => Len(results) = main_n

\* the same without the end of a run an exception has cut short
C29_RecordedResultsInOrder ==
    main_pc \notin {"idle", "no_cases"} =>
        /\ ResultsInOrder
        /\ main_pc # "aborted" => Len(results) = StepsOver
        /\ main_pc = "end" => Len(results) = main_n

(***************************************************************************)
(* Claims about a load_from_files call that fails                          *)
(***************************************************************************)

\* this step is a load_from_files call that returns False
FailedLoad == \E failure \in LoadFailures : \E info \in CaptureInfos :
                 LoadFromFilesFails(failure, info)

\* C30: a failed load is atomic: when load_from_files returns False
\* (unreadable app-info file, unreadable or unparseable XML), elements,
\* interactive_elements, element_index and app_info all keep the values they
\* had before the call
C30_FailedLoadAtomic ==
    [][FailedLoad => UNCHANGED <<elements, interactive_elements, element_index,
                                 app_info>>]_vars

\* the part of the dictionary built from the XML survives a failed load
C30_FailedLoadKeepsElements ==
    [][FailedLoad => UNCHANGED <<elements, interactive_elements, element_index>>]_vars

====
